---- MODULE Spec2Model ----
(***************************************************************************)
(* State-machine model of the PyVisionic rate-limit governor and the paths *)
(* that consume the daily API quota:                                       *)
(*   - RateLimitTracker        (src/src/api/rate_limiter.py)               *)
(*   - DataCollector           (src/data_collector.py)                     *)
(*   - CachedVehicleClient     (src/src/api/client.py)                     *)
(*   - the dashboard's refresh and collection-status routes                *)
(*                             (src/src/web/app.py)                        *)
(* Both the tracker and the collector persist to the same file,            *)
(* data/api_call_history.json.                                             *)
(*                                                                         *)
(* Time is a tick counter; a local calendar day is TicksPerDay ticks.      *)
(* The back-off multiplier is a binary float in the code; every value it   *)
(* takes (1.0, 1.5, 2.25, 3.375, 4.0) is an exact multiple of 1/8, so the  *)
(* model stores it in eighths.                                             *)
(***************************************************************************)
EXTENDS Integers, Sequences, FiniteSets, TLC

----------------------------------------------------------------------------
(* Bounds of the model *)

\* API_DAILY_LIMIT as configured for the runs that are checked
DailyLimit == 2
\* clock resolution: ticks in one local calendar day
TicksPerDay == 2
\* last tick of the clock
MaxTime == 3
\* record_call invocations allowed on one day across all tracker instances
MaxCalls == 3
\* consecutive back-off raises that are followed from a multiplier of 1.0
MaxHits == 5
\* clock resolution of the cache slice: sub-ticks in one tick
SubTicks == 20
\* last instant of the scheduler slice's clock, in eighths of a minute
MaxSchedTime == 14400
\* trips in one snapshot
MaxSnapshotTrips == 2
\* rows of trips.csv
MaxTripRows == 4
\* last snapshot timestamp of the storage slices, in minutes
MaxStoreTime == 270
\* distinct instants that a vendor timestamp denotes
MaxStamp == 2
\* distinct vendor records apart from their timestamps
MaxBody == 2
\* keywords that one error message is put together from
MaxPhrases == 2
\* saves of the state file that are followed
MaxWrites == 2
\* session mutations and dashboard reads that are begun
MaxMutations == 3
\* advances of the clock of the cache directory
MaxAdvances == 2
\* calls that change the files of the cache directory
MaxDirWrites == 3
\* SDK refresh invocations that are followed on one day
MaxSent == 6
\* rows of battery_status.csv
MaxPipeRows == 3

----------------------------------------------------------------------------
(* Values *)

\* Python None / JSON null
None == -1
\* a string that datetime.fromisoformat rejects with ValueError
Bad == -2
\* a key that is missing from the JSON object (dict.get returns its default)
NoKey == -3
\* DataCollector has no _rate_limit_backoff attribute yet
NoAttr == -4

\* back-off multiplier 1.0, in eighths
BackoffOne == 8
\* back-off cap 4.0, in eighths
BackoffCap == 32
\* call_sources keeps the last 50 entries
MaxCallSources == 50
\* _update_vehicle_with_retry(max_retries=3)
MaxRetries == 3
\* CACHE_DURATION_HOURS default
CacheRetentionHours == 48
\* API_DAILY_LIMIT as the client reads it
ClientDailyLimit == 30
\* 24 * 60, the minutes of a day
MinutesPerDay == 1440
\* time.sleep(max(60, wait_seconds)) and `wait_seconds > 60`: 60 s in
\* eighths of a minute
MinSleep == 8
\* time.sleep(300) after an unexpected error, in eighths of a minute
ErrorSleep == 40
\* API_DAILY_LIMIT default of the storage backends
StoreDailyLimit == 30
\* CHARGING_SESSION_GAP_MULTIPLIER default 1.5, in tenths
GapMultiplierTenths == 15
\* the floor of the gap threshold, minutes
MinGapMinutes == 5
\* the 77.4 kWh written into _update_charging_session, and the default of
\* BATTERY_CAPACITY_KWH, in tenths of a kWh
LiteralCapacity == 774
\* battery_level >= prev_level + 2
InferredRise == 2

\* the two OS processes that hold a RateLimitTracker singleton
Procs == {"p1", "p2"}

VARIABLES
    now,          \* wall clock, in ticks
    file,         \* data/api_call_history.json
    trk,          \* per process: its RateLimitTracker instance
    col,          \* the DataCollector instance of the collector process
    cache_mtime,  \* mtime of the newest file written by _save_to_cache, or None
    recorded,     \* history: counter increments made on the current local day
    hits,         \* history, per instance: back-off raises applied to its
                  \* multiplier since that multiplier was last 1.0
    file_hits,    \* history: the same count for the multiplier in the file
    ev            \* the last operation and what it returned

VARIABLES
    frac,          \* wall clock: position inside the tick, in 1/SubTicks of a tick
    cache_mfrac,   \* mtime of the cache file: its position inside the tick
    cache_enabled, \* CachedVehicleClient.cache_enabled (API_CACHE_ENABLED)
    run_met,       \* history: the vendor-side behaviour that the last direct
                   \* call of the client met
    sched          \* the collector process inside run_forever

VARIABLES
    trips_csv,       \* data/trips.csv: its rows
    battery_csv,     \* data/battery_status.csv: its last two rows
    sessions_csv,    \* data/charging_sessions.csv: its rows
    oracle_sessions, \* the charging_sessions table of the Oracle schema
    wall,            \* wall-clock second of the last store_vehicle_data
    store_cfg,       \* STORAGE_BACKEND, DUAL_READ_FROM, BATTERY_CAPACITY_KWH
    sev              \* the last storage operation and what it did

storeVars == <<trips_csv, battery_csv, sessions_csv, oracle_sessions, wall,
               store_cfg, sev>>

VARIABLES
    fr               \* tools/recompute_is_cached.py: the pair of snapshots it
                     \* is comparing and the verdict it reached

VARIABLES
    cls              \* client._classify_error: the message it was handed and
                     \* the error_type of the APIError it returned

VARIABLES
    io               \* data/api_call_history.json as the file system holds
                     \* it while one process saves it and another loads it

VARIABLES
    mut,             \* data/charging_sessions.csv under several processes: where
                     \* each of them is inside its read-modify-write
    cdir,            \* the cache directory: its files, with the clock they
                     \* are stamped by
    pipe             \* the snapshot path from the vendor to the battery
                     \* history: what the cache holds and what was appended

lateVars == <<mut, cdir, pipe>>

sideVars == <<fr, cls, io, lateVars>>

\* the state that the governor's operations never touch
otherVars == <<frac, cache_enabled, run_met, sched, storeVars, sideVars>>

vars == <<now, file, trk, col, cache_mtime, recorded, hits, file_hits, ev,
          cache_mfrac, otherVars>>

----------------------------------------------------------------------------
(* Clock *)

\* datetime.now().date()
DateOf(t) == t \div TicksPerDay
Today == DateOf(now)

Max(a, b) == IF a > b THEN a ELSE b

----------------------------------------------------------------------------
(* The persisted state file *)

AbsentFile ==
    [kind |-> "absent", last_reset |-> NoKey, calls_today |-> NoKey,
     last_call |-> NoKey, backoff |-> NoKey, call_sources |-> <<>>]

\* dict.get(key, default)
Get(v, default) == IF v = NoKey THEN default ELSE v

\* RateLimitTracker._save_state: json.dump of the whole in-memory state
TrkSaved(s) ==
    [kind |-> "object", last_reset |-> s.last_reset,
     calls_today |-> s.calls_today, last_call |-> s.last_call_time,
     backoff |-> s.backoff, call_sources |-> s.call_sources]

\* DataCollector.save_call_history: writes three keys, and stamps last_call
\* with the time of the save, not with self.last_call_time
ColSaved(c) ==
    [kind |-> "object", last_reset |-> c.last_reset,
     calls_today |-> c.calls_today, last_call |-> now,
     backoff |-> NoKey, call_sources |-> <<>>]

----------------------------------------------------------------------------
(* RateLimitTracker *)

\* __init__ before _load_state
TrkFresh ==
    [up |-> TRUE, calls_today |-> 0, last_reset |-> Today,
     last_call_time |-> None, backoff |-> BackoffOne, call_sources |-> <<>>]

TrkNeedsReset(s) == s.last_reset < Today

\* _maybe_reset_day, the in-memory part
TrkMaybeResetDay(s) ==
    IF TrkNeedsReset(s)
    THEN [s EXCEPT !.calls_today = 0, !.last_reset = Today,
                   !.last_call_time = None, !.backoff = BackoffOne,
                   !.call_sources = <<>>]
    ELSE s

\* _maybe_reset_day, the file after it
TrkResetFile(s, f) == IF TrkNeedsReset(s) THEN TrkSaved(TrkMaybeResetDay(s)) ELSE f

\* can_make_call's return value
CanCall_Le(calls) == calls <= DailyLimit
CanCall(calls) == calls < DailyLimit

\* remaining_calls' return value
Remaining(calls) == Max(0, DailyLimit - calls)

\* min(backoff * 1.5, 4.0)
RaiseBackoff_NoCap(b) == (3 * b) \div 2
RaiseBackoff(b) == IF 3 * b >= 2 * BackoffCap THEN BackoffCap ELSE (3 * b) \div 2

\* call_sources.append(...) followed by the [-50:] truncation
AppendSource(srcs, entry) ==
    LET a == Append(srcs, entry)
    IN IF Len(a) > MaxCallSources
       THEN SubSeq(a, Len(a) - MaxCallSources + 1, Len(a))
       ELSE a

\* _load_state up to (not including) its final _maybe_reset_day: the fields
\* are assigned in source order, so a ValueError raised by a later field
\* leaves the earlier assignments in place.  A JSON value that is not an
\* object makes data.get raise AttributeError, which no handler catches.
TrkLoaded(f) ==
    IF f.kind = "absent" \/ f.kind = "invalid_json" THEN TrkFresh
    ELSE IF f.kind = "wrong_shape" THEN [TrkFresh EXCEPT !.up = FALSE]
    ELSE IF f.last_reset = Bad THEN TrkFresh
    ELSE LET s1 == [TrkFresh EXCEPT
                       !.last_reset = Get(f.last_reset, Today),
                       !.calls_today = Get(f.calls_today, 0),
                       !.backoff = Get(f.backoff, BackoffOne),
                       !.call_sources = f.call_sources]
         IN IF f.last_call \in {NoKey, None, Bad} THEN s1
            ELSE [s1 EXCEPT !.last_call_time = f.last_call]

\* _load_state never calls _maybe_reset_day when the file does not exist or
\* when the constructor dies
TrkLoadResets(f) == f.kind # "absent" /\ TrkLoaded(f).up

TrkLoad(f) == IF TrkLoadResets(f) THEN TrkMaybeResetDay(TrkLoaded(f)) ELSE TrkLoaded(f)
TrkLoadFile(f) == IF TrkLoadResets(f) THEN TrkResetFile(TrkLoaded(f), f) ELSE f

Event(op, proc, res, val, sdk) ==
    [op |-> op, proc |-> proc, res |-> res, val |-> val, sdk |-> sdk]

\* operations that return nothing leave this event
NoEvent == Event("none", "none", "none", 0, 0)

\* what every public method that starts with _maybe_reset_day shares: the
\* instance after the reset check, the file (written only when the day
\* rolled over) and the history counts that go with them
TrkDayCheck(p) ==
    /\ file' = TrkResetFile(trk[p], file)
    /\ hits' = [hits EXCEPT ![p] = IF TrkNeedsReset(trk[p]) THEN 0 ELSE @]
    /\ file_hits' = IF TrkNeedsReset(trk[p]) THEN 0 ELSE file_hits

\* RateLimitTracker.can_make_call
TrkCanMakeCall(p) ==
    /\ trk[p].up
    /\ trk' = [trk EXCEPT ![p] = TrkMaybeResetDay(@)]
    /\ TrkDayCheck(p)
    /\ ev' = Event("can_make_call", p,
                   IF CanCall(trk'[p].calls_today) THEN "true" ELSE "false", 0, 0)
    /\ UNCHANGED <<now, col, cache_mtime, cache_mfrac, recorded, otherVars>>

\* RateLimitTracker.get_status; the event carries its remaining_calls
TrkGetStatus(p) ==
    /\ trk[p].up
    /\ trk' = [trk EXCEPT ![p] = TrkMaybeResetDay(@)]
    /\ TrkDayCheck(p)
    /\ ev' = Event("get_status", p,
                   IF trk'[p].backoff > BackoffOne THEN "rate_limited" ELSE "normal",
                   Remaining(trk'[p].calls_today), 0)
    /\ UNCHANGED <<now, col, cache_mtime, cache_mfrac, recorded, otherVars>>

\* RateLimitTracker.record_call
TrkRecordCall(p) ==
    /\ trk[p].up
    /\ recorded < MaxCalls
    /\ LET s0 == TrkMaybeResetDay(trk[p])
           n == s0.calls_today + 1
           s == [s0 EXCEPT !.calls_today = n,
                           !.last_call_time = now,
                           !.call_sources = AppendSource(@, n)]
       IN /\ trk' = [trk EXCEPT ![p] = s]
          /\ file' = TrkSaved(s)
    /\ hits' = [hits EXCEPT ![p] = IF TrkNeedsReset(trk[p]) THEN 0 ELSE @]
    /\ file_hits' = hits'[p]
    /\ recorded' = recorded + 1
    /\ ev' = NoEvent
    /\ UNCHANGED <<now, col, cache_mtime, cache_mfrac, otherVars>>

\* RateLimitTracker.record_rate_limit_hit.  It does not look at the date.
\* (The event it appends to rate_limit_events.json is only ever displayed
\* and is not part of the state.)
TrkRecordRateLimitHit(p) ==
    /\ trk[p].up
    /\ hits[p] < MaxHits
    /\ trk' = [trk EXCEPT ![p].backoff = RaiseBackoff(@)]
    /\ file' = TrkSaved(trk'[p])
    /\ hits' = [hits EXCEPT ![p] = @ + 1]
    /\ file_hits' = hits'[p]
    /\ ev' = NoEvent
    /\ UNCHANGED <<now, col, cache_mtime, cache_mfrac, recorded, otherVars>>

\* RateLimitTracker.reset_backoff
TrkResetBackoff(p) ==
    /\ trk[p].up
    /\ IF trk[p].backoff > BackoffOne
       THEN /\ trk' = [trk EXCEPT ![p].backoff = BackoffOne]
            /\ file' = TrkSaved(trk'[p])
            /\ hits' = [hits EXCEPT ![p] = 0]
            /\ file_hits' = 0
       ELSE UNCHANGED <<trk, file, hits, file_hits>>
    /\ ev' = NoEvent
    /\ UNCHANGED <<now, col, cache_mtime, cache_mfrac, recorded, otherVars>>

\* the process of p ends and a new one constructs its RateLimitTracker
TrkRestart(p) ==
    /\ trk' = [trk EXCEPT ![p] = TrkLoad(file)]
    /\ file' = TrkLoadFile(file)
    /\ hits' = [hits EXCEPT ![p] =
                   IF trk'[p].backoff = BackoffOne THEN 0 ELSE file_hits]
    /\ file_hits' = IF file' = file THEN file_hits ELSE 0
    /\ ev' = Event("tracker_init", p,
                   IF trk'[p].up THEN "loaded" ELSE "raised", 0, 0)
    /\ UNCHANGED <<now, col, cache_mtime, cache_mfrac, recorded, otherVars>>

----------------------------------------------------------------------------
(* DataCollector *)

\* __init__ before load_call_history
ColFresh ==
    [up |-> TRUE, calls_today |-> 0, last_reset |-> Today,
     last_call_time |-> None, backoff |-> NoAttr]

\* reset_daily_counter, the in-memory part (it always saves afterwards)
ColReset(c) ==
    [c EXCEPT !.calls_today = 0, !.last_reset = Today,
              !.last_call_time = None, !.backoff = BackoffOne]

\* getattr(self, '_rate_limit_backoff', 1.0)
ColBackoff(c) == IF c.backoff = NoAttr THEN BackoffOne ELSE c.backoff

\* _extend_next_collection_interval
ColExtend(c) ==
    [c EXCEPT !.backoff = IF @ = NoAttr THEN RaiseBackoff(BackoffOne)
                          ELSE RaiseBackoff(@)]

\* load_call_history catches IOError and JSONDecodeError only: a wrong shape
\* (AttributeError) or an unparsable date (ValueError) ends the constructor
ColLoadRaises(f) ==
    \/ f.kind = "wrong_shape"
    \/ f.kind = "object" /\ (f.last_reset = Bad \/ f.last_call = Bad)

\* the fields load_call_history assigns from a readable file
ColLoaded_ZeroCalls(f) ==
    [ColFresh EXCEPT
        !.last_reset = Get(f.last_reset, Today),
        !.last_call_time = IF f.last_call \in {NoKey, None} THEN None
                           ELSE f.last_call]
ColLoaded(f) ==
    [ColFresh EXCEPT
        !.last_reset = Get(f.last_reset, Today),
        !.calls_today = Get(f.calls_today, 0),
        !.last_call_time = IF f.last_call \in {NoKey, None} THEN None
                           ELSE f.last_call]

\* load_call_history decides to call reset_daily_counter
ColLoadResets(f) ==
    \/ f.kind = "invalid_json"
    \/ f.kind = "object" /\ ~ColLoadRaises(f) /\ ColLoaded(f).last_reset < Today

ColLoad(f) ==
    IF f.kind = "absent" THEN ColFresh
    ELSE IF ColLoadRaises(f) THEN [ColFresh EXCEPT !.up = FALSE]
    ELSE IF f.kind = "invalid_json" THEN ColReset(ColFresh)
    ELSE IF ColLoadResets(f) THEN ColReset(ColLoaded(f))
    ELSE ColLoaded(f)

ColLoadFile(f) == IF ColLoadResets(f) THEN ColSaved(ColLoad(f)) ELSE f

\* the collector process ends and a new one constructs its DataCollector
ColRestart ==
    /\ col' = ColLoad(file)
    /\ file' = ColLoadFile(file)
    /\ hits' = [hits EXCEPT !["collector"] = 0]
    /\ file_hits' = IF file' = file THEN file_hits ELSE 0
    /\ ev' = Event("collector_init", "collector",
                   IF col'.up THEN "loaded" ELSE "raised", 0, 0)
    /\ UNCHANGED <<now, trk, cache_mtime, cache_mfrac, recorded, otherVars>>

----------------------------------------------------------------------------
(* CachedVehicleClient *)

\* what one force_refresh_vehicle_state attempt can do:
\*   ok            the SDK call returns
\*   rate_limit    it raises an error _classify_error calls rate_limit
\*   partial_ok    it raises KeyError('vehicleStatus') and the cached-state
\*                 call that follows succeeds
\*   partial_fail  it raises KeyError('vehicleStatus') and the cached-state
\*                 call fails too (the KeyError classifies as unknown)
\*   error         it raises any other error
SdkOutcomes == {"ok", "rate_limit", "partial_ok", "partial_fail", "error"}

\* the outcomes of the attempts of one _update_vehicle_with_retry; attempts
\* after the one that ends the loop never happen and are fixed to "ok"
SdkRuns ==
    {outs \in [1..MaxRetries -> SdkOutcomes] :
        \A i \in 1..MaxRetries :
            (\E j \in 1..(i-1) : outs[j] # "rate_limit") => outs[i] = "ok"}

\* _update_vehicle_with_retry from attempt number `attempt` (0-based) on:
\* ok = it returned True, err = the error_type of the APIError it raised,
\* sdk = force_refresh calls made, fb = cached-state calls made
RECURSIVE UpdateVehicleWithRetry_RetryAll(_, _)
UpdateVehicleWithRetry_RetryAll(outs, attempt) ==
    IF attempt >= MaxRetries
    THEN [ok |-> FALSE, err |-> "rate_limit", sdk |-> 0, fb |-> 0]
    ELSE LET o == outs[attempt + 1]
         IN CASE o = "ok" -> [ok |-> TRUE, err |-> "none", sdk |-> 1, fb |-> 0]
              [] o = "partial_ok" -> [ok |-> TRUE, err |-> "none", sdk |-> 1, fb |-> 1]
              [] o = "partial_fail" -> [ok |-> FALSE, err |-> "unknown", sdk |-> 1, fb |-> 1]
              [] o \in {"error", "rate_limit"} ->
                    IF attempt = MaxRetries - 1
                    THEN [ok |-> FALSE,
                          err |-> IF o = "error" THEN "other" ELSE "rate_limit",
                          sdk |-> 1, fb |-> 0]
                    ELSE LET r == UpdateVehicleWithRetry_RetryAll(outs, attempt + 1)
                         IN [r EXCEPT !.sdk = @ + 1]

RECURSIVE UpdateVehicleWithRetry(_, _)
UpdateVehicleWithRetry(outs, attempt) ==
    IF attempt >= MaxRetries
    THEN [ok |-> FALSE, err |-> "rate_limit", sdk |-> 0, fb |-> 0]
    ELSE LET o == outs[attempt + 1]
         IN CASE o = "ok" -> [ok |-> TRUE, err |-> "none", sdk |-> 1, fb |-> 0]
              [] o = "partial_ok" -> [ok |-> TRUE, err |-> "none", sdk |-> 1, fb |-> 1]
              [] o = "partial_fail" -> [ok |-> FALSE, err |-> "unknown", sdk |-> 1, fb |-> 1]
              [] o = "error" -> [ok |-> FALSE, err |-> "other", sdk |-> 1, fb |-> 0]
              [] o = "rate_limit" ->
                    IF attempt = MaxRetries - 1
                    THEN [ok |-> FALSE, err |-> "rate_limit", sdk |-> 1, fb |-> 0]
                    ELSE LET r == UpdateVehicleWithRetry(outs, attempt + 1)
                         IN [r EXCEPT !.sdk = @ + 1]

\* what the vendor side does during one client call: tok = the token refresh
\* succeeds, outs = the refresh attempts, veh = the vehicle is found and
\* _process_vehicle_data returns a snapshot.  A choice that is never
\* consulted (the attempts after a failed token refresh, the vehicle after a
\* failed refresh) is listed once.
ClientRuns ==
    {r \in [tok : BOOLEAN, outs : SdkRuns, veh : BOOLEAN] :
        /\ ~r.tok => (r.veh /\ \A i \in 1..MaxRetries : r.outs[i] = "ok")
        /\ ~UpdateVehicleWithRetry(r.outs, 0).ok => r.veh}

\* _is_cache_valid: age < 0.95 * (24*60 / daily_limit) minutes, with the age
\* in ticks of 24*60/TicksPerDay minutes
\* datetime.now() - modified_time, in sub-ticks
CacheAge(mtime) == (now - mtime) * SubTicks + (frac - cache_mfrac)

IsCacheValid_Le(mtime) ==
    /\ mtime # None
    /\ CacheAge(mtime) * DailyLimit * 100 <= 95 * TicksPerDay * SubTicks
IsCacheValid(mtime) ==
    /\ mtime # None
    /\ CacheAge(mtime) * DailyLimit * 100 < 95 * TicksPerDay * SubTicks

\* _load_from_cache returns the entry (the files _save_to_cache writes are
\* never empty, so the entry is truthy)
LoadFromCache == cache_enabled /\ IsCacheValid(cache_mtime)

\* _get_last_successful_cache finds a file that is within retention
HasFallbackCache(mtime) ==
    /\ mtime # None
    /\ ~((now - mtime) * 24 > CacheRetentionHours * TicksPerDay)

\* get_vehicle_data: data = it returned a snapshot, src = where from,
\* sdk = force_refresh calls made, wrote = _save_to_cache ran.
\* An APIError raised by the retry loop is caught and turned into None.
GetVehicleData(run) ==
    IF LoadFromCache
    THEN [data |-> TRUE, src |-> "cache", sdk |-> 0, wrote |-> FALSE]
    ELSE IF ~run.tok
    THEN [data |-> FALSE, src |-> "token_error", sdk |-> 0, wrote |-> FALSE]
    ELSE LET r == UpdateVehicleWithRetry(run.outs, 0)
         IN IF ~r.ok
            THEN [data |-> FALSE, src |-> r.err, sdk |-> r.sdk, wrote |-> FALSE]
            ELSE IF run.veh
            THEN [data |-> TRUE, src |-> "api", sdk |-> r.sdk, wrote |-> TRUE]
            ELSE [data |-> HasFallbackCache(cache_mtime), src |-> "fallback",
                  sdk |-> r.sdk, wrote |-> FALSE]

\* force_cache_update: no cache check, no fallback, every error becomes None
ForceCacheUpdate(run) ==
    IF ~run.tok
    THEN [data |-> FALSE, src |-> "token_error", sdk |-> 0, wrote |-> FALSE]
    ELSE LET r == UpdateVehicleWithRetry(run.outs, 0)
         IN IF ~r.ok
            THEN [data |-> FALSE, src |-> r.err, sdk |-> r.sdk, wrote |-> FALSE]
            ELSE IF run.veh
            THEN [data |-> TRUE, src |-> "api", sdk |-> r.sdk, wrote |-> TRUE]
            ELSE [data |-> FALSE, src |-> "no_vehicle", sdk |-> r.sdk, wrote |-> FALSE]

----------------------------------------------------------------------------
(* DataCollector.collect_data, the body of the scheduler loop and of --once *)

\* can_make_api_call's reset
ColNeedsReset(c) == c.last_reset < Today
ColAfterCheck(c) == IF ColNeedsReset(c) THEN ColReset(c) ELSE c

\* can_make_api_call's return value
ColCanCall_Le(c) == ColAfterCheck(c).calls_today <= DailyLimit
ColCanCall(c) == ColAfterCheck(c).calls_today < DailyLimit

\* the counter update after a snapshot was stored (lines 153-154); the
\* snapshot may have come from the cache, the API or the stale fallback
ColCount(c, src) == [c EXCEPT !.calls_today = @ + 1, !.last_call_time = now]

\* exc: what store_vehicle_data (or any file write inside get_vehicle_data)
\* raised: nothing, an exception whose text holds a rate-limit phrase, or
\* another exception
ColCollectBody(run, exc) ==
    /\ col.up
    /\ LET c1 == ColAfterCheck(col)
           f1 == IF ColNeedsReset(col) THEN ColSaved(c1) ELSE file
           h1 == IF ColNeedsReset(col) THEN 0 ELSE hits["collector"]
           r  == GetVehicleData(run)
       IN IF ~ColCanCall(col)
          THEN /\ col' = c1
               /\ file' = f1
               /\ hits' = [hits EXCEPT !["collector"] = h1]
               /\ ev' = Event("collect_data", "collector", "limit_reached", 0, 0)
               /\ UNCHANGED <<cache_mtime, cache_mfrac, recorded>>
          ELSE /\ cache_mtime' = IF r.wrote THEN now ELSE cache_mtime
               /\ cache_mfrac' = IF r.wrote THEN frac ELSE cache_mfrac
               /\ IF r.data /\ exc = "none"
                  THEN /\ col' = ColCount(c1, r.src)
                       /\ file' = ColSaved(col')
                       /\ recorded' = recorded + (col'.calls_today - c1.calls_today)
                       /\ hits' = [hits EXCEPT !["collector"] = h1]
                       /\ ev' = Event("collect_data", "collector", r.src, 0, r.sdk)
                  ELSE IF r.data /\ exc = "rate_phrase"
                  THEN /\ h1 < MaxHits
                       /\ col' = ColExtend(c1)
                       /\ file' = f1
                       /\ hits' = [hits EXCEPT !["collector"] = h1 + 1]
                       /\ ev' = Event("collect_data", "collector", "rate_limited", 0, r.sdk)
                       /\ UNCHANGED recorded
                  ELSE /\ col' = c1
                       /\ file' = f1
                       /\ hits' = [hits EXCEPT !["collector"] = h1]
                       /\ ev' = Event("collect_data", "collector",
                                      IF r.data THEN "error" ELSE r.src, 0, r.sdk)
                       /\ UNCHANGED recorded
    /\ file_hits' = IF file' = file THEN file_hits ELSE 0
    /\ UNCHANGED <<now, trk>>

ColCollect(run, exc) ==
    /\ ColCollectBody(run, exc)
    /\ UNCHANGED otherVars

----------------------------------------------------------------------------
(* Dashboard (src/web/app.py) *)

\* GET /api/refresh: force_cache_update, then the HTTP status.  No counter
\* of the governor is read or written on this path.
WebRefreshBody(run) ==
    /\ LET r == ForceCacheUpdate(run)
       IN /\ cache_mtime' = IF r.wrote THEN now ELSE cache_mtime
          /\ cache_mfrac' = IF r.wrote THEN frac ELSE cache_mfrac
          /\ ev' = Event("refresh", "web", IF r.data THEN "200" ELSE "500", 0, r.sdk)
    /\ UNCHANGED <<now, file, trk, col, recorded, hits, file_hits>>

WebRefresh(run) ==
    /\ WebRefreshBody(run)
    /\ UNCHANGED otherVars

\* the map page (app.py, line 870) calls get_vehicle_data directly: no counter
\* of the governor is read or written on this path either.  res = where the
\* snapshot came from or the error type, val = 1 iff a snapshot was returned.
ClientGetVehicleData(run) ==
    /\ LET r == GetVehicleData(run)
       IN /\ cache_mtime' = IF r.wrote THEN now ELSE cache_mtime
          /\ cache_mfrac' = IF r.wrote THEN frac ELSE cache_mfrac
          /\ ev' = Event("get_vehicle_data", "web", r.src,
                         IF r.data THEN 1 ELSE 0, r.sdk)
    /\ run_met' = run
    /\ UNCHANGED <<now, file, trk, col, recorded, hits, file_hits,
                   frac, cache_enabled, sched, storeVars, sideVars>>

\* GET /api/collection-status: reads the state file without a lock; any
\* exception becomes a 500
WebCollectionStatus ==
    /\ ev' = IF file.kind = "absent"
             THEN Event("collection_status", "web", "200", 0, 0)
             ELSE IF file.kind # "object"
             THEN Event("collection_status", "web", "500", 0, 0)
             ELSE IF Get(file.calls_today, 0) < DailyLimit /\ file.last_call = Bad
             THEN Event("collection_status", "web", "500", 0, 0)
             ELSE Event("collection_status", "web", "200", Get(file.calls_today, 0), 0)
    /\ UNCHANGED <<now, file, trk, col, cache_mtime, cache_mfrac, recorded, hits, file_hits, otherVars>>

----------------------------------------------------------------------------
(* Environment *)

\* one tick of wall-clock time passes
TickBody ==
    /\ now < MaxTime
    /\ now' = now + 1
    /\ recorded' = IF DateOf(now + 1) # Today THEN 0 ELSE recorded
    /\ ev' = NoEvent
    /\ UNCHANGED <<file, trk, col, cache_mtime, cache_mfrac, hits, file_hits>>

Tick ==
    /\ TickBody
    /\ UNCHANGED otherVars

\* one sub-tick of wall-clock time passes
SubTick ==
    /\ IF frac < SubTicks - 1
       THEN /\ frac' = frac + 1
            /\ UNCHANGED <<now, recorded>>
       ELSE /\ now < MaxTime
            /\ frac' = 0
            /\ now' = now + 1
            /\ recorded' = IF DateOf(now + 1) # Today THEN 0 ELSE recorded
    /\ ev' = NoEvent
    /\ UNCHANGED <<file, trk, col, cache_mtime, cache_mfrac, hits, file_hits,
                   cache_enabled, run_met, sched, storeVars, sideVars>>

----------------------------------------------------------------------------
(* DataCollector.run_forever.  The scheduler slice has its own clock,        *)
(* sched.now, in eighths of a minute: collection_interval_minutes is a whole *)
(* number of minutes and the back-off multiplier a whole number of eighths,  *)
(* so every instant the scheduler computes is a whole number of eighths.     *)

\* a day, in eighths of a minute
DayUnits == MinutesPerDay * BackoffOne

\* the daily limits the scheduler slice is run with
SchedLimits == {DailyLimit, 7}

\* the instants at which the collector process is started
SchedStarts == {0, 3 * MinSleep, 5000}

\* collection_interval_minutes = (24 * 60) // daily_limit
CollectionInterval(limit) == MinutesPerDay \div limit

\* the grid slots of the day of t that lie after t, in the order of the loop
FutureSlots(c, t) ==
    LET today_start == (t \div DayUnits) * DayUnits
    IN {x \in {today_start + BackoffOne * CollectionInterval(c.limit) * i :
                  i \in 0..(c.limit - 1)} : x > t}

SetMin(S) == CHOOSE x \in S : \A y \in S : x <= y

\* calculate_next_collection_time at instant t
CalculateNextCollectionTime(c, t) ==
    IF c.last_call_time # None
          /\ c.last_call_time + CollectionInterval(c.limit) * ColBackoff(c) > t
    THEN c.last_call_time + CollectionInterval(c.limit) * ColBackoff(c)
    ELSE IF FutureSlots(c, t) = {}
         THEN (t \div DayUnits) * DayUnits + DayUnits
         ELSE SetMin(FutureSlots(c, t))

\* can_make_api_call's reset on the scheduler's clock
SchedDayCheck(c, t) ==
    IF c.last_reset < t \div DayUnits
    THEN [c EXCEPT !.calls_today = 0, !.last_reset = t \div DayUnits,
                   !.last_call_time = None, !.backoff = BackoffOne]
    ELSE c

\* how a poll that got past can_make_api_call can end: the snapshot was
\* stored and counted, no snapshot came back, an exception with a rate-limit
\* phrase was caught, another exception was caught
PollOutcomes == {"counted", "no_data", "rate_limited", "error"}

\* the time collect_data takes: none, or a minute
PollDurations == {0, MinSleep}

\* run_forever up to the loop: the first next_collection, and the sleep that
\* is taken only when it is more than a minute away
SchedStart ==
    /\ sched.pc = "start"
    /\ LET nxt == CalculateNextCollectionTime(sched, sched.now)
       IN sched' = [sched EXCEPT !.next = nxt,
                                 !.now = IF nxt - sched.now > MinSleep
                                         THEN nxt ELSE @,
                                 !.pc = "poll"]
    /\ UNCHANGED <<now, file, trk, col, cache_mtime, cache_mfrac, recorded, hits,
                   file_hits, ev, frac, cache_enabled, run_met, storeVars, sideVars>>

\* one collect_data of the loop followed by calculate_next_collection_time.
\* A calls_today that was loaded as a JSON string makes the comparison in
\* can_make_api_call raise TypeError, which run_forever's handler catches.
SchedPoll(outcome, d) ==
    /\ sched.pc = "poll"
    /\ sched.now + d <= MaxSchedTime
    /\ LET c1 == SchedDayCheck(sched, sched.now)
           t2 == sched.now + d
           c2 == IF c1.calls_today >= c1.limit THEN c1
                 ELSE CASE outcome = "counted" ->
                              [c1 EXCEPT !.calls_today = @ + 1, !.last_call_time = t2]
                        [] outcome = "rate_limited" -> ColExtend(c1)
                        [] OTHER -> c1
       IN IF c1.calls_today = Bad
          THEN sched' = [c1 EXCEPT !.pc = "error_sleep", !.polled = "raised"]
          ELSE sched' = [c2 EXCEPT !.now = t2,
                                   !.next = CalculateNextCollectionTime(c2, t2),
                                   !.pc = "sleep",
                                   !.polled = IF c1.calls_today >= c1.limit
                                              THEN "limit_reached" ELSE outcome]
    /\ UNCHANGED <<now, file, trk, col, cache_mtime, cache_mfrac, recorded, hits,
                   file_hits, ev, frac, cache_enabled, run_met, storeVars, sideVars>>

\* time.sleep(max(60, wait_seconds))
SchedSleep ==
    /\ sched.pc = "sleep"
    /\ sched.now + Max(MinSleep, sched.next - sched.now) <= MaxSchedTime
    /\ sched' = [sched EXCEPT !.now = @ + Max(MinSleep, sched.next - sched.now),
                              !.pc = "poll"]
    /\ UNCHANGED <<now, file, trk, col, cache_mtime, cache_mfrac, recorded, hits,
                   file_hits, ev, frac, cache_enabled, run_met, storeVars, sideVars>>

\* a handler that leaves the loop instead of sleeping
SchedErrorSleep_Break ==
    /\ sched.pc = "error_sleep"
    /\ sched' = [sched EXCEPT !.pc = "stopped"]
    /\ UNCHANGED <<now, file, trk, col, cache_mtime, cache_mfrac, recorded, hits,
                   file_hits, ev, frac, cache_enabled, run_met, storeVars, sideVars>>

\* time.sleep(300) in the handler of an unexpected error
SchedErrorSleep ==
    /\ sched.pc = "error_sleep"
    /\ sched.now + ErrorSleep <= MaxSchedTime
    /\ sched' = [sched EXCEPT !.now = @ + ErrorSleep, !.pc = "poll"]
    /\ UNCHANGED <<now, file, trk, col, cache_mtime, cache_mfrac, recorded, hits,
                   file_hits, ev, frac, cache_enabled, run_met, storeVars, sideVars>>

\* KeyboardInterrupt: caught inside the loop (break), or it ends run_forever
\* by propagating from the first sleep or from the handler's sleep
SchedInterrupt ==
    /\ sched.pc \in {"start", "poll", "sleep", "error_sleep"}
    /\ sched' = [sched EXCEPT !.pc = "stopped", !.signal = TRUE]
    /\ UNCHANGED <<now, file, trk, col, cache_mtime, cache_mfrac, recorded, hits,
                   file_hits, ev, frac, cache_enabled, run_met, storeVars, sideVars>>

\* the ways the state file can be damaged from outside the program
CorruptKinds == {"invalid_json", "wrong_shape", "bad_last_reset", "bad_last_call"}

CorruptFile(k) ==
    /\ file.kind = "object"
    /\ file' = CASE k = "invalid_json" -> [AbsentFile EXCEPT !.kind = "invalid_json"]
                 [] k = "wrong_shape" -> [AbsentFile EXCEPT !.kind = "wrong_shape"]
                 [] k = "bad_last_reset" -> [file EXCEPT !.last_reset = Bad]
                 [] k = "bad_last_call" -> [file EXCEPT !.last_call = Bad]
    /\ file_hits' = IF k = "bad_last_call" THEN file_hits ELSE 0
    /\ ev' = NoEvent
    /\ UNCHANGED <<now, trk, col, cache_mtime, cache_mfrac, recorded, hits, otherVars>>

----------------------------------------------------------------------------
(* Freshness of a snapshot (tools/recompute_is_cached.py).  A vendor       *)
(* timestamp is a record [fmt, t]: fmt is the form of the stored value and *)
(* t the instant it denotes.  A snapshot is [kind, api_last_updated,       *)
(* raw_data]; raw_data is [dateTime, lastUpdatedAt, body], body standing   *)
(* for the rest of the vendor record.  The MD5 digest of the serialised    *)
(* raw_data is taken as injective, so the digest is raw_data itself.       *)

NoStamp == [fmt |-> "none", t |-> 0]
\* a string that is neither ISO 8601 nor fourteen digits
BadStamp == [fmt |-> "bad", t |-> 0]
Stamp(fmt, t) == [fmt |-> fmt, t |-> t]
Instants == 1..MaxStamp

NoRaw == [dateTime |-> NoStamp, lastUpdatedAt |-> NoStamp, body |-> 0]
\* {}
EmptyDict == [kind |-> "empty", api_last_updated |-> NoStamp, raw_data |-> NoRaw]
NotADict == [kind |-> "str", api_last_updated |-> NoStamp, raw_data |-> NoRaw]
NoSnapshot == [kind |-> "none", api_last_updated |-> NoStamp, raw_data |-> NoRaw]

\* the snapshots of a cache history: api_last_updated as it is read back
\* from the JSON file, dateTime as fourteen digits, lastUpdatedAt as an ISO
\* string; all of them offset-aware or all of them naive, so that any two
\* instants compare
Snapshots ==
    {[kind |-> "dict", api_last_updated |-> a,
      raw_data |-> [dateTime |-> d, lastUpdatedAt |-> l, body |-> b]] :
        a \in {NoStamp, BadStamp} \cup {Stamp("iso", t) : t \in Instants},
        d \in {NoStamp} \cup {Stamp("digits14", t) : t \in Instants},
        l \in {NoStamp, Stamp("iso", MaxStamp)},
        b \in 1..MaxBody}

IsDict(data) == data.kind \in {"dict", "empty"}
\* bool(data)
Truthy(data) == data.kind \in {"dict", "str"}

\* parse_remote_timestamp: the instant, or None
ParseRemoteTimestamp(value) ==
    CASE value.fmt = "datetime" -> value.t
      [] value.fmt = "iso" -> value.t
      [] value.fmt = "digits14" -> value.t
      [] OTHER -> None

\* extract_remote_timestamp: the first candidate that parses
ExtractRemoteTimestamp(data) ==
    IF ~IsDict(data) THEN None
    ELSE LET candidates == <<data.api_last_updated, data.raw_data.dateTime,
                             data.raw_data.lastUpdatedAt>>
             parsed == {i \in 1..3 : ParseRemoteTimestamp(candidates[i]) # None}
         IN IF parsed = {} THEN None
            ELSE ParseRemoteTimestamp(candidates[CHOOSE i \in parsed :
                                                     \A j \in parsed : i <= j])

\* raw_data_signature
RawDataSignature(data) == IF IsDict(data) THEN data.raw_data ELSE NoRaw

\* is_remote_data_fresh
IsRemoteDataFresh_EqualIsFresh(new_data, previous_data) ==
    IF ~IsDict(new_data) THEN FALSE
    ELSE LET new_ts == ExtractRemoteTimestamp(new_data)
             prev_ts == IF Truthy(previous_data)
                        THEN ExtractRemoteTimestamp(previous_data) ELSE None
         IN CASE new_ts # None /\ prev_ts # None -> TRUE
              [] new_ts # None /\ prev_ts = None -> TRUE
              [] new_ts = None /\ prev_ts # None ->
                     RawDataSignature(new_data) # RawDataSignature(previous_data)
              [] OTHER -> TRUE

IsRemoteDataFresh_NoDigest(new_data, previous_data) ==
    IF ~IsDict(new_data) THEN FALSE
    ELSE LET new_ts == ExtractRemoteTimestamp(new_data)
             prev_ts == IF Truthy(previous_data)
                        THEN ExtractRemoteTimestamp(previous_data) ELSE None
         IN CASE new_ts # None /\ prev_ts # None -> new_ts # prev_ts
              [] new_ts # None /\ prev_ts = None -> TRUE
              [] new_ts = None /\ prev_ts # None -> FALSE
              [] OTHER -> TRUE

IsRemoteDataFresh(new_data, previous_data) ==
    IF ~IsDict(new_data) THEN FALSE
    ELSE LET new_ts == ExtractRemoteTimestamp(new_data)
             prev_ts == IF Truthy(previous_data)
                        THEN ExtractRemoteTimestamp(previous_data) ELSE None
             fresh == CASE new_ts # None /\ prev_ts # None -> FALSE
                        [] new_ts # None /\ prev_ts = None -> TRUE
                        [] new_ts = None /\ prev_ts # None -> FALSE
                        [] OTHER -> TRUE
         IN IF new_ts # None /\ prev_ts # None /\ new_ts > prev_ts THEN TRUE
            ELSE IF new_ts # None /\ prev_ts # None /\ new_ts < prev_ts THEN TRUE
            ELSE IF fresh THEN TRUE
            ELSE Truthy(previous_data)
                 /\ RawDataSignature(new_data) # RawDataSignature(previous_data)

\* nothing has been compared
NoClassification ==
    [pc |-> "idle", new_data |-> NoSnapshot, previous_data |-> NoSnapshot,
     fresh |-> FALSE]

\* _classify_error: the classes in the order of its if-chain, and the
\* phrases that it looks for in str(error).lower()
ErrorClasses ==
    <<"rate_limit", "auth", "vehicle_not_found", "network",
      "service_unavailable", "vehicle_offline">>

Keywords(class) ==
    CASE class = "rate_limit" ->
             {"rate limit", "too many requests", "quota exceeded", "throttled",
              "429", "limit exceeded", "quota"}
      [] class = "auth" ->
             {"unauthorized", "401", "authentication", "invalid credentials",
              "login failed", "token expired", "forbidden", "403"}
      [] class = "vehicle_not_found" ->
             {"vehicle not found", "no vehicles", "invalid vehicle"}
      [] class = "network" ->
             {"connection", "timeout", "network", "unreachable", "ssl",
              "certificate", "handshake"}
      [] class = "service_unavailable" ->
             {"service unavailable", "503", "maintenance",
              "temporarily unavailable", "500", "server error", "502",
              "bad gateway"}
      [] class = "vehicle_offline" ->
             {"vehicle offline", "cannot reach vehicle", "vehicle communication",
              "remote command failed", "vehicle not responding"}

AllKeywords == UNION {Keywords(ErrorClasses[i]) : i \in 1..Len(ErrorClasses)}

\* a message is the set of phrases that occur in it; a message in which
\* "quota exceeded" occurs has "quota" in it as well
Occurring(phrases) ==
    IF "quota exceeded" \in phrases THEN phrases \cup {"quota"} ELSE phrases

RECURSIVE MessagesWith(_)
MessagesWith(n) ==
    IF n = 0 THEN {{}}
    ELSE LET fewer == MessagesWith(n - 1)
         IN fewer \cup {Occurring(m \cup {k}) : m \in fewer, k \in AllKeywords}

Messages == MessagesWith(MaxPhrases)

\* any(phrase in error_msg for phrase in [...])
AnyPhrase(message, class) == message \cap Keywords(class) # {}

\* _classify_error with the authentication test ahead of the rate-limit test
ClassifyError_AuthFirst(message) ==
    IF AnyPhrase(message, "auth") THEN "auth"
    ELSE IF AnyPhrase(message, "rate_limit") THEN "rate_limit"
    ELSE IF AnyPhrase(message, "vehicle_not_found") THEN "vehicle_not_found"
    ELSE IF AnyPhrase(message, "network") THEN "network"
    ELSE IF AnyPhrase(message, "service_unavailable") THEN "service_unavailable"
    ELSE IF AnyPhrase(message, "vehicle_offline") THEN "vehicle_offline"
    ELSE "unknown"

\* _classify_error: the error_type of the APIError it returns
ClassifyError(message) ==
    IF AnyPhrase(message, "rate_limit") THEN "rate_limit"
    ELSE IF AnyPhrase(message, "auth") THEN "auth"
    ELSE IF AnyPhrase(message, "vehicle_not_found") THEN "vehicle_not_found"
    ELSE IF AnyPhrase(message, "network") THEN "network"
    ELSE IF AnyPhrase(message, "service_unavailable") THEN "service_unavailable"
    ELSE IF AnyPhrase(message, "vehicle_offline") THEN "vehicle_offline"
    ELSE "unknown"

\* no error has been classified
NoClassifiedError == [pc |-> "idle", message |-> {}, error_type |-> "none"]

\* The state file on disk, between the system calls of a writer and of a
\* reader.  text is what a read() of the file returns: the complete JSON
\* document number ver, nothing, or the leading part of a document.  ex / sh
\* are the flock locks held on it.  seen is what the reader's json.load
\* was given.
\* the processes that save the file: RateLimitTracker._save_state (with
\* flock) and DataCollector.save_call_history (without)
Savers == {"tracker", "collector"}
\* the processes that load it: RateLimitTracker._load_state (with flock) and
\* the dashboard's get_collection_status (without)
Loaders == {"tracker", "dashboard"}

IoIdle(saver, loader) ==
    [saver |-> saver, loader |-> loader, wpc |-> "idle", rpc |-> "idle",
     text |-> "complete", ver |-> 0, ex |-> FALSE, sh |-> FALSE,
     seen |-> "none", seen_ver |-> 0]

NoIo == IoIdle("none", "none")

IoUnchanged ==
    UNCHANGED <<now, file, trk, col, cache_mtime, cache_mfrac, recorded, hits,
                file_hits, ev, frac, cache_enabled, run_met, sched, storeVars,
                fr, cls, lateVars>>

\* open(history_file, "w"): the file is truncated as it is opened
SaveOpen ==
    /\ io.saver \in Savers /\ io.wpc = "idle" /\ io.ver < MaxWrites
    /\ io' = [io EXCEPT !.wpc = "opened", !.text = "empty"]
    /\ IoUnchanged

\* fcntl.flock(f, LOCK_EX): returns once no other lock is held
SaveLock ==
    /\ io.saver = "tracker" /\ io.wpc = "opened"
    /\ ~io.ex /\ ~io.sh
    /\ io' = [io EXCEPT !.wpc = "locked", !.ex = TRUE]
    /\ IoUnchanged

\* json.dump(state, f): the document goes to the file object's buffer; a
\* document longer than the buffer (big) has its leading part written out
SaveDump(big) ==
    /\ \/ io.saver = "tracker" /\ io.wpc = "locked"
       \/ io.saver = "collector" /\ io.wpc = "opened"
    /\ io' = [io EXCEPT !.wpc = "dumped",
                        !.text = IF big THEN "partial" ELSE @]
    /\ IoUnchanged

\* fcntl.flock(f, LOCK_UN) in the finally clause, ahead of the close
SaveUnlock ==
    /\ io.saver = "tracker" /\ io.wpc = "dumped"
    /\ io' = [io EXCEPT !.wpc = "unlocked", !.ex = FALSE]
    /\ IoUnchanged

\* the end of the with block: close() writes the buffer out
SaveClose ==
    /\ \/ io.saver = "tracker" /\ io.wpc = "unlocked"
       \/ io.saver = "collector" /\ io.wpc = "dumped"
    /\ io' = [io EXCEPT !.wpc = "idle", !.text = "complete", !.ver = @ + 1]
    /\ IoUnchanged

\* open(history_file, "r")
LoadOpen ==
    /\ io.loader \in Loaders /\ io.rpc = "idle"
    /\ io' = [io EXCEPT !.rpc = "opened"]
    /\ IoUnchanged

\* fcntl.flock(f, LOCK_SH): returns once no exclusive lock is held
LoadLock ==
    /\ io.loader = "tracker" /\ io.rpc = "opened"
    /\ ~io.ex
    /\ io' = [io EXCEPT !.rpc = "locked", !.sh = TRUE]
    /\ IoUnchanged

\* json.load(f): one read() of the whole file, then the parse
LoadRead ==
    /\ \/ io.loader = "tracker" /\ io.rpc = "locked"
       \/ io.loader = "dashboard" /\ io.rpc = "opened"
    /\ io' = [io EXCEPT !.rpc = "read", !.seen = io.text, !.seen_ver = io.ver]
    /\ IoUnchanged

\* LOCK_UN where a lock was taken, and the end of the with block
LoadClose ==
    /\ io.rpc = "read"
    /\ io' = [io EXCEPT !.rpc = "idle", !.sh = FALSE]
    /\ IoUnchanged

\* one call of _classify_error on the error that was handed in
ClassifyOneError ==
    /\ cls.pc = "called"
    /\ cls' = [cls EXCEPT !.pc = "returned",
                          !.error_type = ClassifyError(cls.message)]
    /\ UNCHANGED <<now, file, trk, col, cache_mtime, cache_mfrac, recorded, hits,
                   file_hits, ev, frac, cache_enabled, run_met, sched, storeVars, fr, io, lateVars>>

\* one call of is_remote_data_fresh on the pair that was handed in
Classify ==
    /\ fr.pc = "called"
    /\ fr' = [fr EXCEPT !.pc = "returned",
                        !.fresh = IsRemoteDataFresh(fr.new_data, fr.previous_data)]
    /\ UNCHANGED <<now, file, trk, col, cache_mtime, cache_mfrac, recorded, hits,
                   file_hits, ev, frac, cache_enabled, run_met, sched, storeVars, cls, io, lateVars>>

----------------------------------------------------------------------------
(* Storage (src/storage).  Timestamps of snapshots are minutes.  A number *)
(* is a record [k, v]: k = "int" or "float" is its Python type, v its     *)
(* value in tenths; [k |-> "none"] is None.  csv.DictWriter writes        *)
(* str(value), so a stored cell keeps k: 15 is written "15", 15.0 "15.0"  *)
(* and None as the empty cell.                                            *)

PyNone == [k |-> "none", v |-> 0]
PyInt(n) == [k |-> "int", v |-> 10 * n]
PyFloat(tenths) == [k |-> "float", v |-> tenths]

\* the text str() gives for a Python value: "None" for None
PyStr(c) == IF c.k = "none" THEN [k |-> "None", v |-> 0] ELSE c

\* pd.read_csv infers the dtype of a column from all its cells: int64 only
\* if every cell is an integer literal, float64 as soon as one cell has a
\* decimal point or is empty
ColumnKind(rows, column) ==
    IF \A i \in 1..Len(rows) : rows[i][column].k = "int" THEN "int" ELSE "float"

\* the value read_csv gives for one cell of a column of dtype kind: an empty
\* cell is NaN, every other cell has the column's dtype
ReadCell(c, kind) == IF c.k = "none" THEN [k |-> "nan", v |-> 0] ELSE [k |-> kind, v |-> c.v]

\* no odometer part in a trip_id
NoOdometer == [k |-> "absent", v |-> 0]

\* trip_id of a row of trips.csv: f"{date_str}_{row['distance']}" and, if
\* odometer_start is not NaN, f"_{row['odometer_start']}"
ExistingTripId(rows, i) ==
    LET d == ReadCell(rows[i].distance, ColumnKind(rows, "distance"))
        o == ReadCell(rows[i].odometer_start, ColumnKind(rows, "odometer_start"))
    IN <<rows[i].date, d, IF o.k # "nan" THEN o ELSE NoOdometer>>

\* trip_id of a trip of the snapshot
NewTripId(trip) ==
    <<trip.date, PyStr(trip.distance),
      IF trip.odometer_start.k # "none" THEN PyStr(trip.odometer_start) ELSE NoOdometer>>

\* existing_trips: the trip_ids of the rows of trips.csv
ExistingTrips(rows) == {ExistingTripId(rows, i) : i \in 1..Len(rows)}

\* new_trips: the trips of the snapshot whose trip_id is not in
\* existing_trips, each added to existing_trips as it is kept
RECURSIVE NewTrips(_, _)
NewTrips(trips, seen) ==
    IF trips = <<>> THEN <<>>
    ELSE IF NewTripId(Head(trips)) \notin seen
         THEN <<Head(trips)>> \o NewTrips(Tail(trips), seen \cup {NewTripId(Head(trips))})
         ELSE NewTrips(Tail(trips), seen)

\* the trips part of CSVStorage.store_vehicle_data: trips.csv afterwards
StoreTrips(rows, trips) ==
    IF trips = <<>> THEN rows ELSE rows \o NewTrips(trips, ExistingTrips(rows))

\* the trips that the vendor reports in the checked runs: distance 15 (an
\* integer), 25.5 or missing; odometer 5000 or missing (daily statistics)
TripDistances == {PyInt(15), PyFloat(255), PyNone}
TripOdometers == {PyInt(5000), PyNone}
TripPool ==
    [date : {"2024-01-15"}, distance : TripDistances, odometer_start : TripOdometers]

\* the trips lists of a snapshot
TripLists ==
    UNION {[1..n -> TripPool] : n \in 1..MaxSnapshotTrips}

(* Charging sessions.  A row keeps session_id, start_time, end_time,       *)
(* start_battery, end_battery, energy_added (hundredths of a kWh) and      *)
(* is_complete; duration and the power columns are derived from these and  *)
(* feed nothing back.  Levels are whole percents (validate_battery_level   *)
(* returns an int) and survive the CSV round trip unchanged, as do the     *)
(* session_id strings and the True/False of is_complete.                   *)

\* round((battery_diff / 100) * capacity, 2) for battery_diff > 0, capacity
\* in tenths of a kWh.  diff * capacity / 10 is never half-way between two
\* hundredths for the capacities used, so the rounding mode does not matter.
EnergyAdded(battery_diff, capacity) == (battery_diff * capacity + 5) \div 10

\* charging_gap_threshold_minutes = max(poll_interval * gap_multiplier, 5.0)
\* is exceeded by time_diff: time_diff > threshold, with poll_interval =
\* (24 * 60) / daily_limit compared without rounding
ExceedsGap(time_diff) ==
    /\ time_diff * StoreDailyLimit * 10 > MinutesPerDay * GapMultiplierTenths
    /\ time_diff > MinGapMinutes

\* get_charging_sessions_df, energy column: recomputed from the battery
\* delta with the configured capacity where it is missing or not positive
\* and the delta is positive; the result is written back to the file
GetChargingSessionsDf(rows, capacity) ==
    [i \in 1..Len(rows) |->
        IF rows[i].energy_added <= 0 /\ rows[i].end_battery - rows[i].start_battery > 0
        THEN [rows[i] EXCEPT !.energy_added =
                  EnergyAdded(rows[i].end_battery - rows[i].start_battery, capacity)]
        ELSE rows[i]]

\* sessions_df[sessions_df["session_id"] == session_id].index
IdxOf(rows, session_id) == {i \in 1..Len(rows) : rows[i].session_id = session_id}

\* _append_charging_session: session_id is the wall-clock second of the call
AppendChargingSession(rows, session_id, timestamp, battery_level, is_complete) ==
    Append(rows, [session_id |-> session_id,
                  start_time |-> timestamp,
                  end_time |-> IF is_complete THEN timestamp ELSE None,
                  start_battery |-> battery_level,
                  end_battery |-> battery_level,
                  energy_added |-> 0,
                  is_complete |-> is_complete])

\* _update_charging_session: the first row with the session_id gets the new
\* end; its energy is rewritten only for a positive battery_diff, with the
\* literal 77.4
UpdateChargingSession(rows, capacity, session_id, timestamp, battery_level) ==
    LET df == GetChargingSessionsDf(rows, capacity)
        idx == IdxOf(df, session_id)
    IN IF idx = {} THEN df
       ELSE LET i == SetMin(idx)
                battery_diff == battery_level - df[i].start_battery
            IN [df EXCEPT ![i] = [@ EXCEPT !.end_battery = battery_level,
                                           !.end_time = timestamp,
                                           !.energy_added =
                                               IF battery_diff > 0
                                               THEN EnergyAdded(battery_diff, LiteralCapacity)
                                               ELSE @]]

\* a completion that leaves the flag as it is
CompleteChargingSession_NoFlag(rows, capacity, session_id, timestamp, battery_level) ==
    UpdateChargingSession(rows, capacity, session_id, timestamp, battery_level)

\* _complete_charging_session
CompleteChargingSession(rows, capacity, session_id, timestamp, battery_level) ==
    LET df == UpdateChargingSession(rows, capacity, session_id, timestamp, battery_level)
        idx == IdxOf(df, session_id)
    IN IF idx = {} THEN df
       ELSE [df EXCEPT ![SetMin(idx)] = [@ EXCEPT !.is_complete = TRUE]]

\* sessions_df[sessions_df["is_complete"] == False]
Incomplete(rows) == {i \in 1..Len(rows) : ~rows[i].is_complete}

SetMax(S) == CHOOSE x \in S : \A y \in S : y <= x

\* _get_last_battery_level: battery_level of the row before the one just
\* appended to battery_status.csv, None if there is none or it is empty
GetLastBatteryLevel(battery_rows) ==
    IF Len(battery_rows) > 1 THEN battery_rows[Len(battery_rows) - 1].level ELSE None

\* a validation that converts the level and does not test its range
ValidateBatteryLevel_NoRange(value) ==
    IF value = None
    THEN [raised |-> FALSE, level |-> None]
    ELSE [raised |-> FALSE, level |-> value]

\* DataValidator.validate_battery_level: None for a missing level, the
\* ValueError for a level outside 0..100, the level as an int otherwise
\* (the levels of the checked runs are whole numbers)
ValidateBatteryLevel(value) ==
    IF value = None
    THEN [raised |-> FALSE, level |-> None]
    ELSE IF ~(0 <= value /\ value <= 100)
    THEN [raised |-> TRUE, level |-> None]
    ELSE [raised |-> FALSE, level |-> value]

\* `except ValueError: ... return` and `if battery_level is None: return`:
\* the reading is dropped before the sessions file is read
Dropped(reading) ==
    LET v == ValidateBatteryLevel(reading.level)
    IN v.raised \/ v.level = None

\* the reading is taken as charging: is_charging, or plugged in with a level
\* above the previous one
EffectivelyCharging(reading, prev_level) ==
    \/ reading.is_charging
    \/ reading.is_plugged_in /\ prev_level # None /\ reading.level > prev_level

\* _track_charging_session: charging_sessions.csv afterwards.  battery_rows
\* is battery_status.csv with the reading's row already appended,
\* session_id the id a session created by this call gets.
TrackChargingSession(rows, capacity, battery_rows, reading, session_id) ==
    LET prev_level == GetLastBatteryLevel(battery_rows)
        ts == reading.timestamp
        level == ValidateBatteryLevel(reading.level).level
    IN IF Dropped(reading) THEN rows
       ELSE IF /\ ~EffectivelyCharging(reading, prev_level)
               /\ prev_level # None
               /\ level >= prev_level + InferredRise
       THEN CompleteChargingSession(
                UpdateChargingSession(
                    AppendChargingSession(rows, session_id, ts, prev_level, TRUE),
                    capacity, session_id, ts, level),
                capacity, session_id, ts, level)
       ELSE LET df == GetChargingSessionsDf(rows, capacity)
                inc == Incomplete(df)
            IN IF EffectivelyCharging(reading, prev_level)
               THEN IF inc = {}
                    THEN AppendChargingSession(df, session_id, ts, level, FALSE)
                    ELSE LET active == df[SetMax(inc)]
                         IN IF active.end_time # None /\ ExceedsGap(ts - active.end_time)
                            THEN AppendChargingSession(
                                     CompleteChargingSession(df, capacity, active.session_id,
                                                             active.end_time, active.end_battery),
                                     session_id, ts, level, FALSE)
                            ELSE UpdateChargingSession(df, capacity, active.session_id, ts, level)
               ELSE IF inc = {} THEN df
                    ELSE CompleteChargingSession(df, capacity, df[SetMax(inc)].session_id,
                                                 ts, level)

(* OracleStorage: session_id is the primary key of charging_sessions, so  *)
(* the table holds one row per id.  The rows are kept in insertion order.  *)

\* _start_charging_session: the INSERT; a session_id that is already in the
\* table raises IntegrityError, which is logged and rolled back
OraStartChargingSession(rows, session_id, timestamp, battery_level) ==
    IF IdxOf(rows, session_id) # {} THEN rows
    ELSE AppendChargingSession(rows, session_id, timestamp, battery_level, FALSE)

\* OracleStorage._update_charging_session: energy_added is 0.0 unless
\* battery_diff > 0, and uses the configured capacity
OraUpdateChargingSession(rows, capacity, session_id, timestamp, battery_level) ==
    [i \in 1..Len(rows) |->
        IF rows[i].session_id # session_id THEN rows[i]
        ELSE [rows[i] EXCEPT !.end_time = timestamp,
                             !.end_battery = battery_level,
                             !.energy_added =
                                 IF battery_level - rows[i].start_battery > 0
                                 THEN EnergyAdded(battery_level - rows[i].start_battery,
                                                  capacity)
                                 ELSE 0]]

\* OracleStorage._complete_charging_session
OraCompleteChargingSession(rows, capacity, session_id, timestamp, battery_level) ==
    LET df == OraUpdateChargingSession(rows, capacity, session_id, timestamp, battery_level)
    IN [i \in 1..Len(df) |->
           IF df[i].session_id = session_id
           THEN [df[i] EXCEPT !.is_complete = TRUE] ELSE df[i]]

\* _get_active_charging_session: WHERE is_complete = 'False' ORDER BY
\* start_time DESC FETCH FIRST 1 ROW ONLY; 0 if there is none
OraActive(rows) ==
    IF Incomplete(rows) = {} THEN 0
    ELSE CHOOSE i \in Incomplete(rows) :
             \A j \in Incomplete(rows) : rows[j].start_time <= rows[i].start_time

\* OracleStorage._track_charging_session: only is_charging starts or
\* continues a session
OraTrackChargingSession(rows, capacity, reading, session_id) ==
    LET ts == reading.timestamp
        level == ValidateBatteryLevel(reading.level).level
        a == OraActive(rows)
    IN IF Dropped(reading) THEN rows
       ELSE IF reading.is_charging
       THEN IF a = 0
            THEN OraStartChargingSession(rows, session_id, ts, level)
            ELSE IF rows[a].end_time # None /\ ExceedsGap(ts - rows[a].end_time)
                 THEN OraStartChargingSession(
                          OraCompleteChargingSession(rows, capacity, rows[a].session_id,
                                                     rows[a].end_time, rows[a].end_battery),
                          session_id, ts, level)
                 ELSE OraUpdateChargingSession(rows, capacity, rows[a].session_id, ts, level)
       ELSE IF a = 0 THEN rows
            ELSE OraCompleteChargingSession(rows, capacity, rows[a].session_id, ts, level)

(* store_vehicle_data and the reads, behind the backend that               *)
(* create_storage selects                                                  *)

\* STORAGE_BACKEND values that select a backend of their own
Backends == {"csv", "oracle", "dual"}
\* DUAL_READ_FROM
ReadSides == {"csv", "oracle"}

\* DualWriteStorage._reader
Reader(read_from) == IF read_from = "oracle" THEN "oracle" ELSE "csv"

\* the backend that serves get_charging_sessions_df
ReadSide(cfg) == IF cfg.backend = "dual" THEN Reader(cfg.read_from) ELSE cfg.backend

\* a dual store that lets the failure of the Oracle write reach the caller
DualRaised_Propagate(csv_ok, ora_ok) == ~csv_ok \/ ~ora_ok

\* DualWriteStorage.store_vehicle_data raises to its caller: only what the
\* CSV write raises; `except Exception` keeps the Oracle failure
DualRaised(csv_ok, ora_ok) == ~csv_ok

\* battery levels, polling gaps (minutes) and usable capacities (tenths of a
\* kWh: the default 77.4 and the 58.0 of the smaller pack) of the checked runs
Levels == {60, 61, 62, 68}
PollGaps == {72, 90}
Capacities == {774, 580}

\* data.get("battery") of a snapshot taken at ts
Readings(ts) ==
    [timestamp : {ts}, level : Levels \cup {None},
     is_charging : BOOLEAN, is_plugged_in : BOOLEAN]

\* the levels a vendor record can carry: two valid ones, none, and one on
\* either side of 0..100
RawLevels == {60, 68, None, 150, -7}
RawReadings(ts) ==
    [timestamp : {ts}, level : RawLevels,
     is_charging : BOOLEAN, is_plugged_in : BOOLEAN]

\* data["battery"] is missing or empty
NoBattery == [timestamp |-> None, level |-> None,
              is_charging |-> FALSE, is_plugged_in |-> FALSE]

\* a dict key that is absent is the empty set, a key with value v is {v}
DictGet(entry, default) == IF entry = {} THEN default ELSE CHOOSE v \in entry : TRUE

\* a snapshot with a battery reading and no trips / with trips only; neither
\* has a vendor timestamp, a vendor record or the key is_cached
BatteryData(reading) ==
    [timestamp |-> reading.timestamp, trips |-> <<>>, battery |-> reading,
     api_last_updated |-> NoStamp, raw_data |-> NoRaw, is_cached |-> {}]
TripData(ts, trips) ==
    [timestamp |-> ts, trips |-> trips, battery |-> NoBattery,
     api_last_updated |-> NoStamp, raw_data |-> NoRaw, is_cached |-> {}]

\* client._process_vehicle_data: the snapshot built from the vehicle object
\* that the SDK filled from the vendor record; it sets no key is_cached
ProcessVehicleData(ts, reading, vendor) ==
    [timestamp |-> ts, trips |-> <<>>, battery |-> reading,
     api_last_updated |-> vendor.api_last_updated, raw_data |-> vendor.raw_data,
     is_cached |-> {}]

\* the row that store_vehicle_data appends to battery_status.csv
BatteryRow(data) ==
    [timestamp |-> data.battery.timestamp, level |-> data.battery.level,
     is_charging |-> data.battery.is_charging,
     is_plugged_in |-> data.battery.is_plugged_in,
     is_cached |-> DictGet(data.is_cached, FALSE)]

\* the last two rows of battery_status.csv; no older row is read when a
\* snapshot is stored
LastTwo(rows) == IF Len(rows) > 2 THEN SubSeq(rows, Len(rows) - 1, Len(rows)) ELSE rows

\* nothing has been stored or read yet
NoStoreEvent == [op |-> "none", ts |-> 0, raised |-> FALSE,
                 csv_done |-> FALSE, ora_done |-> FALSE,
                 served |-> "none", result |-> <<>>, data |-> TripData(0, <<>>)]

\* storage.store_vehicle_data(data) on the configured backend.  same_second:
\* the call runs in the wall-clock second of the previous one (the
\* reprocessing tools store snapshot after snapshot).  csv_ok / ora_ok: the
\* backend's write goes through; a write that fails raises at its first
\* file or connection operation.
StoreVehicleData(data, same_second, csv_ok, ora_ok) ==
    /\ data.timestamp <= MaxStoreTime
    /\ LET session_id == IF same_second THEN wall ELSE wall + 1
           b == store_cfg.backend
           has_battery == data.battery # NoBattery
           csv_done == b \in {"csv", "dual"} /\ csv_ok
           ora_done == b \in {"oracle", "dual"} /\ ora_ok /\ (b = "dual" => csv_ok)
           battery_rows == LastTwo(Append(battery_csv, BatteryRow(data)))
       IN /\ wall' = session_id
          /\ trips_csv' = IF csv_done THEN StoreTrips(trips_csv, data.trips) ELSE trips_csv
          /\ battery_csv' = IF csv_done /\ has_battery THEN battery_rows ELSE battery_csv
          /\ sessions_csv' =
                 IF csv_done /\ has_battery
                 THEN TrackChargingSession(sessions_csv, store_cfg.capacity,
                                           battery_rows, data.battery, session_id)
                 ELSE sessions_csv
          /\ oracle_sessions' =
                 IF ora_done /\ has_battery
                 THEN OraTrackChargingSession(oracle_sessions, store_cfg.capacity,
                                              data.battery, session_id)
                 ELSE oracle_sessions
          /\ sev' = [op |-> "store", ts |-> data.timestamp,
                     raised |-> CASE b = "csv" -> ~csv_ok
                                  [] b = "oracle" -> ~ora_ok
                                  [] OTHER -> DualRaised(csv_ok, ora_ok),
                     csv_done |-> csv_done, ora_done |-> ora_done,
                     served |-> "none", result |-> <<>>, data |-> data]
    /\ UNCHANGED <<now, file, trk, col, cache_mtime, cache_mfrac, recorded, hits,
                   file_hits, ev, frac, cache_enabled, run_met, sched, sideVars, store_cfg>>

\* storage.get_charging_sessions_df(): the CSV backend normalises the file
\* as it reads it
ReadChargingSessions ==
    /\ LET side == ReadSide(store_cfg)
           df == GetChargingSessionsDf(sessions_csv, store_cfg.capacity)
       IN /\ sessions_csv' = IF side = "csv" THEN df ELSE sessions_csv
          /\ sev' = [sev EXCEPT !.op = "read", !.raised = FALSE,
                                !.csv_done = FALSE, !.ora_done = FALSE,
                                !.served = side,
                                !.result = IF side = "csv" THEN df ELSE oracle_sessions]
    /\ UNCHANGED <<now, file, trk, col, cache_mtime, cache_mfrac, recorded, hits,
                   file_hits, ev, frac, cache_enabled, run_met, sched, sideVars, store_cfg,
                   trips_csv, battery_csv, oracle_sessions, wall>>

\* a fresh data directory and an empty Oracle schema
StoreEmpty ==
    /\ trips_csv = <<>>
    /\ battery_csv = <<>>
    /\ sessions_csv = <<>>
    /\ oracle_sessions = <<>>
    /\ wall = 0
    /\ sev = NoStoreEvent

\* the default configuration: STORAGE_BACKEND csv, BATTERY_CAPACITY_KWH 77.4
StoreDefault ==
    /\ StoreEmpty
    /\ store_cfg = [backend |-> "csv", read_from |-> "csv", capacity |-> LiteralCapacity]

----------------------------------------------------------------------------
(* charging_sessions.csv under several processes.  CSVStorage reads the    *)
(* file whole (pd.read_csv), rewrites it whole (to_csv) and appends a row  *)
(* (open "a"), each without a lock; a process is followed from one of      *)
(* these file operations to the next.                                      *)

\* the processes that store snapshots (data_collector.py and the refresh
\* route of the dashboard) and the one that serves /api/charging-sessions
Writers == {"collector", "refresh"}
Mutators == Writers \cup {"dashboard"}

\* get_charging_sessions_df sets changed: a duration that is missing or not
\* positive is recomputed (a row without end_time then holds NaN and is
\* recomputed again at every read), as is a missing energy
SessionsChanged(rows, capacity) ==
    \/ GetChargingSessionsDf(rows, capacity) # rows
    \/ \E i \in 1..Len(rows) :
          rows[i].end_time = None \/ rows[i].end_time - rows[i].start_time <= 0

\* the second half of _complete_charging_session: the flag is set on the
\* first row with the session_id of the frame that was just read
MarkComplete(df, session_id) ==
    IF IdxOf(df, session_id) = {} THEN df
    ELSE [df EXCEPT ![SetMin(IdxOf(df, session_id))] = [@ EXCEPT !.is_complete = TRUE]]

\* one call that _track_charging_session makes on the file
SessionOp(op, session_id, ts, level, complete) ==
    [op |-> op, session_id |-> session_id, ts |-> ts, level |-> level,
     complete |-> complete]

\* the calls of the inferred-charge branch: the complete row, its update,
\* and _complete_charging_session (an update and the flag)
InferredOps(reading, prev_level, session_id) ==
    <<SessionOp("append", session_id, reading.timestamp, prev_level, TRUE),
      SessionOp("update", session_id, reading.timestamp, reading.level, FALSE),
      SessionOp("update", session_id, reading.timestamp, reading.level, FALSE),
      SessionOp("flag", session_id, reading.timestamp, reading.level, FALSE)>>

\* the calls that follow the lookup of the active session in the frame df
TrackOps(df, reading, prev_level, session_id) ==
    LET ts == reading.timestamp
        level == reading.level
        inc == Incomplete(df)
    IN IF EffectivelyCharging(reading, prev_level)
       THEN IF inc = {}
            THEN <<SessionOp("append", session_id, ts, level, FALSE)>>
            ELSE LET active == df[SetMax(inc)]
                 IN IF active.end_time # None /\ ExceedsGap(ts - active.end_time)
                    THEN <<SessionOp("update", active.session_id, active.end_time,
                                     active.end_battery, FALSE),
                           SessionOp("flag", active.session_id, active.end_time,
                                     active.end_battery, FALSE),
                           SessionOp("append", session_id, ts, level, FALSE)>>
                    ELSE <<SessionOp("update", active.session_id, ts, level, FALSE)>>
       ELSE IF inc = {} THEN <<>>
            ELSE <<SessionOp("update", df[SetMax(inc)].session_id, ts, level, FALSE),
                   SessionOp("flag", df[SetMax(inc)].session_id, ts, level, FALSE)>>

\* a process outside the storage
MutIdle ==
    [pc |-> "idle", purpose |-> "none", base |-> <<>>, ops |-> <<>>,
     reading |-> NoBattery, prev_level |-> None, session_id |-> 0]

NoMut == [proc |-> [p \in Mutators |-> MutIdle], lost |-> FALSE, begun |-> 0]

\* where a process goes once it has the calls ops left to make
MutContinue(m, ops) ==
    [m EXCEPT !.ops = ops,
              !.purpose = IF ops = <<>> THEN "none" ELSE "op",
              !.pc = IF ops = <<>> THEN "idle"
                     ELSE IF Head(ops).op = "append" THEN "append" ELSE "read"]

MutUnchanged ==
    UNCHANGED <<now, file, trk, col, cache_mtime, cache_mfrac, recorded, hits,
                file_hits, ev, frac, cache_enabled, run_met, sched,
                trips_csv, oracle_sessions, store_cfg, fr, cls, io, cdir, pipe>>

\* store_vehicle_data up to the first access to charging_sessions.csv: the
\* battery row is appended, the previous level read back, and the branch
\* of _track_charging_session chosen
MutBeginStore(p, reading) ==
    /\ p \in Writers /\ mut.proc[p].pc = "idle" /\ mut.begun < MaxMutations
    /\ LET data == BatteryData(reading)
           battery_rows == LastTwo(Append(battery_csv, BatteryRow(data)))
           prev_level == GetLastBatteryLevel(battery_rows)
           session_id == wall + 1
           m == [MutIdle EXCEPT !.reading = reading, !.prev_level = prev_level,
                                !.session_id = session_id]
       IN /\ battery_csv' = battery_rows
          /\ wall' = session_id
          /\ sev' = [sev EXCEPT !.op = "store", !.ts = reading.timestamp, !.data = data]
          /\ mut' = [mut EXCEPT
                 !.begun = @ + 1,
                 !.proc[p] =
                     IF Dropped(reading) THEN MutIdle
                     ELSE IF /\ ~EffectivelyCharging(reading, prev_level)
                             /\ prev_level # None
                             /\ reading.level >= prev_level + InferredRise
                     THEN MutContinue(m, InferredOps(reading, prev_level, session_id))
                     ELSE [m EXCEPT !.pc = "read", !.purpose = "find"]]
    /\ UNCHANGED sessions_csv
    /\ MutUnchanged

\* GET /api/charging-sessions enters get_charging_sessions_df
MutBeginServe ==
    /\ mut.proc["dashboard"].pc = "idle" /\ mut.begun < MaxMutations
    /\ mut' = [mut EXCEPT !.begun = @ + 1,
                          !.proc["dashboard"] =
                              [MutIdle EXCEPT !.pc = "read", !.purpose = "serve"]]
    /\ UNCHANGED <<sessions_csv, battery_csv, wall, sev>>
    /\ MutUnchanged

\* pd.read_csv at the head of get_charging_sessions_df
MutRead(p) ==
    /\ mut.proc[p].pc = "read"
    /\ mut' = [mut EXCEPT !.proc[p].base = sessions_csv,
                          !.proc[p].pc =
                              IF SessionsChanged(sessions_csv, store_cfg.capacity)
                              THEN "writeback" ELSE "apply"]
    /\ UNCHANGED <<sessions_csv, battery_csv, wall, sev>>
    /\ MutUnchanged

\* df.to_csv at the end of get_charging_sessions_df: the normalised frame
\* replaces the file.  lost: the file no longer holds what an undivided
\* read and write at this moment would have left.
MutWriteBack(p) ==
    /\ mut.proc[p].pc = "writeback"
    /\ sessions_csv' = GetChargingSessionsDf(mut.proc[p].base, store_cfg.capacity)
    /\ mut' = [mut EXCEPT
           !.proc[p].pc = "apply",
           !.lost = @ \/ sessions_csv' #
                         GetChargingSessionsDf(sessions_csv, store_cfg.capacity)]
    /\ UNCHANGED <<battery_csv, wall, sev>>
    /\ MutUnchanged

\* the caller of get_charging_sessions_df goes on with the frame it got:
\* the route returns it, _track_charging_session picks its branch,
\* _update_charging_session and _complete_charging_session change their
\* row and write the frame out
MutApply(p) ==
    /\ mut.proc[p].pc = "apply"
    /\ LET m == mut.proc[p]
           capacity == store_cfg.capacity
           df == GetChargingSessionsDf(m.base, capacity)
           o == Head(m.ops)
           found == IdxOf(df, o.session_id) # {}
           written == IF o.op = "update"
                      THEN UpdateChargingSession(m.base, capacity, o.session_id,
                                                 o.ts, o.level)
                      ELSE MarkComplete(df, o.session_id)
           undivided == IF o.op = "update"
                        THEN UpdateChargingSession(sessions_csv, capacity,
                                                   o.session_id, o.ts, o.level)
                        ELSE MarkComplete(GetChargingSessionsDf(sessions_csv, capacity),
                                          o.session_id)
       IN CASE m.purpose = "serve" ->
                 /\ mut' = [mut EXCEPT !.proc[p] = MutIdle]
                 /\ UNCHANGED sessions_csv
            [] m.purpose = "find" ->
                 /\ mut' = [mut EXCEPT !.proc[p] =
                                MutContinue(m, TrackOps(df, m.reading, m.prev_level,
                                                        m.session_id))]
                 /\ UNCHANGED sessions_csv
            [] OTHER ->
                 /\ sessions_csv' = IF found THEN written ELSE sessions_csv
                 /\ mut' = [mut EXCEPT
                        !.proc[p] = MutContinue(m, Tail(m.ops)),
                        !.lost = @ \/ GetChargingSessionsDf(sessions_csv', capacity) #
                                      GetChargingSessionsDf(undivided, capacity)]
    /\ UNCHANGED <<battery_csv, wall, sev>>
    /\ MutUnchanged

\* _append_charging_session: one row written at the end of the file
MutAppend(p) ==
    /\ mut.proc[p].pc = "append"
    /\ LET m == mut.proc[p]
           o == Head(m.ops)
       IN /\ sessions_csv' = AppendChargingSession(sessions_csv, o.session_id, o.ts,
                                                   o.level, o.complete)
          /\ mut' = [mut EXCEPT !.proc[p] = MutContinue(m, Tail(m.ops))]
    /\ UNCHANGED <<battery_csv, wall, sev>>
    /\ MutUnchanged

----------------------------------------------------------------------------
(* The cache directory ("cache" for CachedVehicleClient and for           *)
(* WeatherService alike).  cdir.clock is in hours; a file is its name      *)
(* (kind and the clock value inside the name), its mtime and what it       *)
(* holds.                                                                  *)

\* a vehicle snapshot fetched at `at`, a weather lookup, an error record
Content(type, at) == [type |-> type, at |-> at]
NoContent == Content("none", 0)

\* <key>.json, history_<second>_<key>.json, error_<second>.json,
\* error_token_<second>.json, weather_<lat>_<lon>.json
FileName(kind, stamp) == [kind |-> kind, stamp |-> stamp]
CurrentFile == FileName("current", 0)
WeatherFile == FileName("weather", 0)

\* open(path, "w") and json.dump at the instant clock
WriteFile(files, name, clock, content) ==
    {f \in files : f.name # name} \cup
        {[name |-> name, mtime |-> clock, content |-> content]}

\* _is_cache_valid: now - mtime < 0.95 * (24 * 60 / daily_limit) minutes
DirCacheValid(age) == age * 60 * ClientDailyLimit * 100 < 95 * MinutesPerDay

\* a cleanup that removes every file older than retention
CleanupOldCacheFiles_AnyFile(files, clock) ==
    {f \in files : ~(clock - f.mtime > CacheRetentionHours)}

\* _cleanup_old_cache_files: glob("history_*.json"), unlink where
\* st_mtime < now - cache_retention
CleanupOldCacheFiles(files, clock) ==
    {f \in files :
        ~(f.name.kind = "history" /\ clock - f.mtime > CacheRetentionHours)}

\* _save_to_cache: the current file, the history file of this second, then
\* the cleanup
SaveToCache(files, clock, data) ==
    CleanupOldCacheFiles(
        WriteFile(WriteFile(files, CurrentFile, clock, data),
                  FileName("history", clock), clock, data),
        clock)

\* _load_from_cache: what the current file holds if caching is enabled and
\* the file is valid
LoadFromCacheDir(files, clock, enabled) ==
    LET cur == {f \in files : f.name = CurrentFile}
    IN IF enabled /\ \E f \in cur : DirCacheValid(clock - f.mtime)
       THEN (CHOOSE f \in cur : TRUE).content
       ELSE NoContent

\* _get_last_successful_cache: glob("*.json") without the names that start
\* with error_, the file with the largest mtime (max returns whichever of
\* several such files glob lists first), None if it is older than retention
FallbackResults(files, clock) ==
    LET cache_files == {f \in files : f.name.kind \notin {"error", "error_token"}}
        latest == {f \in cache_files : \A g \in cache_files : g.mtime <= f.mtime}
    IN IF cache_files = {} THEN {NoContent}
       ELSE {IF clock - f.mtime > CacheRetentionHours THEN NoContent ELSE f.content :
                f \in latest}

\* the outcome of the attempt that ends the retry loop
SdkEnding(outs) ==
    IF \A i \in 1..MaxRetries : outs[i] = "rate_limit" THEN "rate_limit"
    ELSE outs[SetMin({i \in 1..MaxRetries : outs[i] # "rate_limit"})]

\* what the last call on the directory was and did: where its answer came
\* from, the answer, the cached-state calls it made, how the retry loop
\* ended, the snapshot it saved, the names of the files it removed
DirEvent(op, src, returned, fb, ending, stored) ==
    [op |-> op, src |-> src, returned |-> returned, fb |-> fb,
     ending |-> ending, stored |-> stored, removed |-> {}]
NoDirEvent == DirEvent("none", "none", NoContent, 0, "none", NoContent)

NoCdir == [clock |-> 0, advances |-> 0, writes |-> 0, files |-> {}, last |-> NoDirEvent]

\* the call leaves the directory as files and returns as last says
DirCommit(files, last) ==
    /\ files # cdir.files => cdir.writes < MaxDirWrites
    /\ cdir' = [cdir EXCEPT !.files = files,
                            !.writes = IF files # cdir.files THEN @ + 1 ELSE @,
                            !.last = [last EXCEPT !.removed =
                                         {f.name : f \in cdir.files} \
                                             {f.name : f \in files}]]
    /\ UNCHANGED <<now, file, trk, col, cache_mtime, cache_mfrac, recorded, hits,
                   file_hits, ev, frac, cache_enabled, run_met, sched, storeVars,
                   fr, cls, io, mut, pipe>>

\* get_vehicle_data on the directory.  An APIError out of the retry loop is
\* no KeyError, so the handler writes its error record and returns None.
DirGetVehicleData(run) ==
    LET clock == cdir.clock
        cached == LoadFromCacheDir(cdir.files, clock, cache_enabled)
        r == UpdateVehicleWithRetry(run.outs, 0)
        ending == SdkEnding(run.outs)
        data == Content("vehicle", clock)
    IN IF cached # NoContent
       THEN DirCommit(cdir.files,
                      DirEvent("get_vehicle_data", "cache", cached, 0, "none", NoContent))
       ELSE IF ~run.tok
       THEN DirCommit(WriteFile(cdir.files, FileName("error_token", clock), clock,
                                Content("error", clock)),
                      DirEvent("get_vehicle_data", "token_error", NoContent, 0, "none",
                               NoContent))
       ELSE IF ~r.ok
       THEN DirCommit(WriteFile(cdir.files, FileName("error", clock), clock,
                                Content("error", clock)),
                      DirEvent("get_vehicle_data", r.err, NoContent, r.fb, ending,
                               NoContent))
       ELSE IF run.veh
       THEN DirCommit(SaveToCache(cdir.files, clock, data),
                      DirEvent("get_vehicle_data", "api", data, r.fb, ending, data))
       ELSE \E returned \in FallbackResults(cdir.files, clock) :
                DirCommit(cdir.files,
                          DirEvent("get_vehicle_data", "fallback", returned, r.fb,
                                   ending, NoContent))

\* force_cache_update on the directory: every error of the retry loop is
\* caught and answered with None
DirForceCacheUpdate(run) ==
    LET clock == cdir.clock
        r == UpdateVehicleWithRetry(run.outs, 0)
        ending == SdkEnding(run.outs)
        data == Content("vehicle", clock)
    IN IF ~run.tok
       THEN DirCommit(WriteFile(cdir.files, FileName("error_token", clock), clock,
                                Content("error", clock)),
                      DirEvent("force_cache_update", "token_error", NoContent, 0,
                               "none", NoContent))
       ELSE IF ~r.ok
       THEN DirCommit(cdir.files,
                      DirEvent("force_cache_update", r.err, NoContent, r.fb, ending,
                               NoContent))
       ELSE IF run.veh
       THEN DirCommit(SaveToCache(cdir.files, clock, data),
                      DirEvent("force_cache_update", "api", data, r.fb, ending, data))
       ELSE DirCommit(cdir.files,
                      DirEvent("force_cache_update", "no_vehicle", NoContent, r.fb,
                               ending, NoContent))

\* WeatherService._save_to_cache, reached from store_vehicle_data when the
\* snapshot has a location and the weather entry is older than 30 minutes
WeatherSaveToCache ==
    DirCommit(WriteFile(cdir.files, WeatherFile, cdir.clock,
                        Content("weather", cdir.clock)),
              DirEvent("weather", "none", NoContent, 0, "none", NoContent))

\* hours pass
DirAdvance(d) ==
    /\ cdir.advances < MaxAdvances
    /\ cdir' = [cdir EXCEPT !.clock = @ + d, !.advances = @ + 1, !.last = NoDirEvent]
    /\ UNCHANGED <<now, file, trk, col, cache_mtime, cache_mfrac, recorded, hits,
                   file_hits, ev, frac, cache_enabled, run_met, sched, storeVars,
                   fr, cls, io, mut, pipe>>

----------------------------------------------------------------------------
(* The snapshot path: vendor -> client -> cache -> store.  pipe.sent is    *)
(* the number of force_refresh_vehicle_state invocations made on the       *)
(* current local day by whatever caller; snapshots built from a vendor     *)
(* answer are numbered 1, 2, ... (pipe.issued), pipe.cached is the number  *)
(* of the snapshot in the newest cache file (0: none), and pipe.rows are   *)
(* the rows of battery_status.csv, each by the number of its snapshot.     *)

NoPipe == [sent |-> 0, issued |-> 0, cached |-> 0, rows |-> <<>>]

\* what a client call does to the path: r is the result of get_vehicle_data
\* or force_cache_update, stored the snapshot handed to store_vehicle_data
\* (0: none)
PipeAfter(r, stored) ==
    [sent   |-> pipe.sent + r.sdk,
     issued |-> IF r.src = "api" THEN pipe.issued + 1 ELSE pipe.issued,
     cached |-> IF r.wrote THEN pipe.issued + 1 ELSE pipe.cached,
     rows   |-> IF stored = 0 THEN pipe.rows ELSE Append(pipe.rows, stored)]

\* the snapshot a client call returns: a new one from the vendor, or the
\* one that the cache file holds
Returned(r) ==
    IF ~r.data THEN 0
    ELSE IF r.src = "api" THEN pipe.issued + 1
    ELSE pipe.cached

PipeBounded(p) == p.sent <= MaxSent /\ Len(p.rows) <= MaxPipeRows

\* collect_data with a store that raises nothing: `if data:
\* self.storage.store_vehicle_data(data)`, whatever get_vehicle_data took
\* the snapshot from
PipeCollect(run) ==
    /\ ColCollectBody(run, "none")
    /\ pipe' = IF ColCanCall(col)
               THEN LET r == GetVehicleData(run) IN PipeAfter(r, Returned(r))
               ELSE pipe
    /\ PipeBounded(pipe')
    /\ UNCHANGED <<frac, cache_enabled, run_met, sched, storeVars,
                   fr, cls, io, mut, cdir>>

\* GET /api/refresh: force_cache_update, then `if data:
\* storage.store_vehicle_data(data)`
PipeRefresh(run) ==
    /\ WebRefreshBody(run)
    /\ pipe' = LET r == ForceCacheUpdate(run) IN PipeAfter(r, Returned(r))
    /\ PipeBounded(pipe')
    /\ UNCHANGED <<frac, cache_enabled, run_met, sched, storeVars,
                   fr, cls, io, mut, cdir>>

\* one tick passes; at midnight a new local day begins
PipeTick ==
    /\ TickBody
    /\ pipe' = [pipe EXCEPT !.sent = IF DateOf(now + 1) # Today THEN 0 ELSE @]
    /\ UNCHANGED <<frac, cache_enabled, run_met, sched, storeVars,
                   fr, cls, io, mut, cdir>>

----------------------------------------------------------------------------
(* Specifications *)

Instances == Procs \cup {"collector"}

\* no process is inside a session mutation, the cache directory is empty
\* and nothing has been fetched
LateDefault == mut = NoMut /\ cdir = NoCdir /\ pipe = NoPipe

SideDefault ==
    fr = NoClassification /\ cls = NoClassifiedError /\ io = NoIo /\ LateDefault

\* no direct call of the client has been made yet
NoRun == [tok |-> TRUE, outs |-> [i \in 1..MaxRetries |-> "none"], veh |-> TRUE]

\* run_forever has not been entered
SchedOff == [pc |-> "off"]

InitGovernor ==
    /\ now = 0
    /\ file = AbsentFile
    /\ trk = [p \in Procs |-> TrkFresh]
    /\ col = ColFresh
    /\ cache_mtime = None
    /\ recorded = 0
    /\ hits = [i \in Instances |-> 0]
    /\ file_hits = 0
    /\ ev = NoEvent
    /\ frac = 0
    /\ cache_mfrac = 0
    /\ run_met = NoRun

\* the default configuration: API_CACHE_ENABLED is "true"
Init ==
    InitGovernor /\ cache_enabled = TRUE /\ sched = SchedOff /\ StoreDefault /\ SideDefault

\* API_CACHE_ENABLED set either way
InitCache ==
    /\ InitGovernor /\ cache_enabled \in BOOLEAN /\ sched = SchedOff
    /\ StoreDefault /\ SideDefault

CollectExcs == {"none", "rate_phrase", "other"}

\* the vendor-side behaviours without a retry that succeeds: the first
\* attempt decides, or every attempt is rate limited.  A retried refresh
\* differs from these only in the number of SDK calls it makes.
FirstAttemptRuns ==
    {r \in ClientRuns :
        r.outs[1] = "rate_limit" => \A i \in 1..MaxRetries : r.outs[i] = "rate_limit"}

\* the governor library driven through its public interface by two processes
GovernorNext ==
    \/ \E p \in Procs : TrkCanMakeCall(p)
    \/ \E p \in Procs : TrkGetStatus(p)
    \/ \E p \in Procs : TrkRecordCall(p)
    \/ \E p \in Procs : TrkRecordRateLimitHit(p)
    \/ \E p \in Procs : TrkResetBackoff(p)
    \/ \E p \in Procs : TrkRestart(p)
    \/ Tick

\* the collector process and the dashboard as they are wired in the source
Next ==
    \/ ColRestart
    \/ \E run \in ClientRuns, exc \in CollectExcs : ColCollect(run, exc)
    \/ \E run \in ClientRuns : WebRefresh(run)
    \/ WebCollectionStatus
    \/ Tick

\* the daily-limit check of both implementations over the shared file
QuotaNext ==
    \/ TrkCanMakeCall("p1")
    \/ TrkGetStatus("p1")
    \/ TrkRecordCall("p1")
    \/ TrkRestart("p1")
    \/ ColRestart
    \/ \E run \in FirstAttemptRuns, exc \in {"none", "other"} : ColCollect(run, exc)
    \/ Tick

\* the back-off multiplier of both implementations; every poll of this
\* slice ends in the rate-limit handler or in a failure, so no call is counted
BackoffNext ==
    \/ TrkRecordRateLimitHit("p1")
    \/ TrkResetBackoff("p1")
    \/ TrkCanMakeCall("p1")
    \/ TrkRestart("p1")
    \/ ColRestart
    \/ \E run \in ClientRuns : ColCollect(run, "rate_phrase")
    \/ Tick

\* both implementations starting up on a damaged state file
CorruptNext ==
    \/ TrkRecordCall("p1")
    \/ TrkRecordRateLimitHit("p1")
    \/ TrkRestart("p1")
    \/ ColRestart
    \/ \E k \in CorruptKinds : CorruptFile(k)
    \/ Tick

\* the collector process about to enter run_forever at instant t with the
\* given daily limit; calls is the calls_today it loaded (0, or a JSON
\* string); polled = how the last poll ended, signal = KeyboardInterrupt was
\* delivered
SchedEntered(limit, t, calls) ==
    [pc |-> "start", now |-> t, limit |-> limit, calls_today |-> calls,
     last_reset |-> t \div DayUnits, last_call_time |-> None, backoff |-> NoAttr,
     next |-> None, polled |-> "none", signal |-> FALSE]

InitSched ==
    /\ InitGovernor
    /\ cache_enabled = TRUE
    /\ \E limit \in SchedLimits, t \in SchedStarts, calls \in {0, Bad} :
          sched = SchedEntered(limit, t, calls)
    /\ StoreDefault /\ SideDefault

\* run_forever
SchedNext ==
    \/ SchedStart
    \/ \E outcome \in PollOutcomes, d \in PollDurations : SchedPoll(outcome, d)
    \/ SchedSleep
    \/ SchedErrorSleep
    \/ SchedInterrupt

\* the client called directly by the dashboard, on the fine clock
CacheNext ==
    \/ \E run \in FirstAttemptRuns : ClientGetVehicleData(run)
    \/ SubTick

\* the client called directly by the dashboard, with every vendor behaviour
RetryNext ==
    \/ \E run \in ClientRuns : ClientGetVehicleData(run)
    \/ \E run \in ClientRuns : WebRefresh(run)
    \/ Tick

\* a fresh CSV backend with the default configuration
InitTrips ==
    InitGovernor /\ cache_enabled = TRUE /\ sched = SchedOff /\ StoreDefault /\ SideDefault

\* a fresh CSV or dual-write backend with either capacity configured
InitSessions ==
    /\ InitGovernor /\ cache_enabled = TRUE /\ sched = SchedOff /\ StoreEmpty
    /\ SideDefault
    /\ \E b \in {"csv", "dual"}, c \in Capacities :
          store_cfg = [backend |-> b, read_from |-> "csv", capacity |-> c]

\* a fresh dual-write backend reading from either side
InitDual ==
    /\ InitGovernor /\ cache_enabled = TRUE /\ sched = SchedOff /\ StoreEmpty
    /\ SideDefault
    /\ \E r \in ReadSides :
          store_cfg = [backend |-> "dual", read_from |-> r, capacity |-> LiteralCapacity]

\* the classifier called with any snapshot, or a value that is not a
\* dict, against any earlier snapshot or none
InitFresh ==
    /\ InitGovernor /\ cache_enabled = TRUE /\ sched = SchedOff /\ StoreDefault
    /\ \E n \in Snapshots \cup {EmptyDict, NotADict},
          p \in Snapshots \cup {EmptyDict, NoSnapshot} :
          fr = [pc |-> "called", new_data |-> n, previous_data |-> p,
                fresh |-> FALSE]
    /\ cls = NoClassifiedError /\ io = NoIo /\ LateDefault

FreshNext == Classify

\* the error classifier handed any message
InitClassify ==
    /\ InitGovernor /\ cache_enabled = TRUE /\ sched = SchedOff /\ StoreDefault
    /\ fr = NoClassification /\ io = NoIo /\ LateDefault
    /\ \E m \in Messages : cls = [pc |-> "called", message |-> m, error_type |-> "none"]

ClassifyNext == ClassifyOneError

\* one process that saves the state file and one that loads it, each with
\* or without the lock
InitIo ==
    /\ InitGovernor /\ cache_enabled = TRUE /\ sched = SchedOff /\ StoreDefault
    /\ fr = NoClassification /\ cls = NoClassifiedError /\ LateDefault
    /\ \E saver \in Savers, loader \in Loaders : io = IoIdle(saver, loader)

IoNext ==
    \/ SaveOpen
    \/ SaveLock
    \/ \E big \in BOOLEAN : SaveDump(big)
    \/ SaveUnlock
    \/ SaveClose
    \/ LoadOpen
    \/ LoadLock
    \/ LoadRead
    \/ LoadClose

\* an empty cache directory
InitDir ==
    InitGovernor /\ cache_enabled = TRUE /\ sched = SchedOff /\ StoreDefault /\ SideDefault

\* the hours that pass between two calls
DirJumps == {24, 25}

\* the vendor-side behaviours that differ in what they do to the
\* directory: the first attempt decides, every attempt is rate limited, or
\* the vendor record lacks vehicleStatus on the retry
DirRuns ==
    {r \in ClientRuns :
        r.outs[1] = "rate_limit" =>
            \/ \A i \in 1..MaxRetries : r.outs[i] = "rate_limit"
            \/ r.outs[2] \in {"partial_ok", "partial_fail"}}

DirNext ==
    \/ \E run \in DirRuns : DirGetVehicleData(run)
    \/ \E run \in DirRuns : DirForceCacheUpdate(run)
    \/ WeatherSaveToCache
    \/ \E d \in DirJumps : DirAdvance(d)

\* the collector and the refresh route store readings of a car on the
\* charger or off it while the dashboard reads the table
PipeNext ==
    \/ \E run \in ClientRuns : PipeCollect(run)
    \/ \E run \in ClientRuns : PipeRefresh(run)
    \/ PipeTick

\* readings with any level, stored one poll after the other
LevelsNext ==
    \E d \in PollGaps :
        \E reading \in RawReadings(sev.ts + d) :
            StoreVehicleData(BatteryData(reading), FALSE, TRUE, TRUE)

InitMut ==
    InitGovernor /\ cache_enabled = TRUE /\ sched = SchedOff /\ StoreDefault /\ SideDefault

MutNext ==
    \/ \E p \in Writers, d \in PollGaps :
           \E reading \in Readings(sev.ts + d) :
               /\ reading.level \in {60, 68}
               /\ reading.is_plugged_in = reading.is_charging
               /\ MutBeginStore(p, reading)
    \/ MutBeginServe
    \/ \E p \in Mutators : MutRead(p)
    \/ \E p \in Mutators : MutWriteBack(p)
    \/ \E p \in Mutators : MutApply(p)
    \/ \E p \in Writers : MutAppend(p)

\* the battery reading inside a vendor record
VendorReading(ts, vendor) ==
    [timestamp |-> ts, level |-> 59 + vendor.raw_data.body,
     is_charging |-> FALSE, is_plugged_in |-> FALSE]

\* collect_data on the path that stores: the client builds the snapshot
\* from what the vendor returned d minutes after the last poll, and the
\* storage appends it
CollectAndStore(vendor, d) ==
    StoreVehicleData(ProcessVehicleData(sev.ts + d, VendorReading(sev.ts + d, vendor),
                                        vendor),
                     FALSE, TRUE, TRUE)

InitIngest ==
    InitGovernor /\ cache_enabled = TRUE /\ sched = SchedOff /\ StoreDefault /\ SideDefault

\* polls that each receive any vendor record, the last one again included
IngestNext ==
    \E vendor \in Snapshots, d \in PollGaps : CollectAndStore(vendor, d)

\* snapshots that carry trips, stored one poll apart
TripsNext ==
    \E trips \in TripLists :
        /\ Len(trips_csv) + Len(trips) <= MaxTripRows
        /\ StoreVehicleData(TripData(sev.ts + 48, trips), FALSE, TRUE, TRUE)

\* snapshots that carry a battery reading, stored in timestamp order
SessionsNext ==
    \E d \in PollGaps, same_second \in BOOLEAN :
        \E reading \in Readings(sev.ts + d) :
            StoreVehicleData(BatteryData(reading), same_second, TRUE, TRUE)

\* the dual-write backend with writes that can fail on either side; the
\* readings are those of a car that is charging at 60 or 68 percent, or is
\* unplugged at one of these levels
DualNext ==
    \/ \E d \in PollGaps, same_second \in BOOLEAN, csv_ok \in BOOLEAN, ora_ok \in BOOLEAN :
           \E reading \in Readings(sev.ts + d) :
               /\ reading.level \in {60, 68}
               /\ reading.is_plugged_in = reading.is_charging
               /\ StoreVehicleData(BatteryData(reading), same_second, csv_ok, ora_ok)
    \/ ReadChargingSessions

Spec == Init /\ [][Next]_vars
SpecDir == InitDir /\ [][DirNext]_vars
SpecPipe == Init /\ [][PipeNext]_vars
SpecLevels == InitSessions /\ [][LevelsNext]_vars
SpecMut == InitMut /\ [][MutNext]_vars
SpecIngest == InitIngest /\ [][IngestNext]_vars
SpecClassify == InitClassify /\ [][ClassifyNext]_vars
SpecIo == InitIo /\ [][IoNext]_vars
SpecFresh == InitFresh /\ [][FreshNext]_vars
SpecTrips == InitTrips /\ [][TripsNext]_vars
SpecSessions == InitSessions /\ [][SessionsNext]_vars
SpecDual == InitDual /\ [][DualNext]_vars
SpecCache == InitCache /\ [][CacheNext]_vars
SpecRetry == InitCache /\ [][RetryNext]_vars
SpecSched == InitSched /\ [][SchedNext]_vars
SpecGovernor == Init /\ [][GovernorNext]_vars
SpecQuota == Init /\ [][QuotaNext]_vars
SpecBackoff == Init /\ [][BackoffNext]_vars
SpecCorrupt == Init /\ [][CorruptNext]_vars

----------------------------------------------------------------------------
(* Properties *)

\* the counter an instance works with once it has looked at the date
EffectiveCalls(s) == IF s.last_reset < Today THEN 0 ELSE s.calls_today

\* the count the state file holds for the current local day
PersistedToday ==
    IF file.kind = "object" /\ file.last_reset = Today
    THEN Get(file.calls_today, 0)
    ELSE 0

\* C1: on every local day, however polls, manual refreshes, failed polls and
\* restarts of the collector interleave, the number of calls counted for
\* that day stays at or below daily_limit: in the running collector, in the
\* state file, and as the number of increments actually made that day.
C1_DailyLimitNeverExceeded ==
    /\ recorded <= DailyLimit
    /\ col.calls_today <= DailyLimit
    /\ PersistedToday <= DailyLimit

\* a poll was refused on a day on which daily_limit calls had been counted
C1_Witness ==
    /\ recorded = DailyLimit
    /\ ev.op = "collect_data" /\ ev.res = "limit_reached"

\* C2: can_call returns true exactly when the counter, taken as 0 if the
\* stored date is before today, is below daily_limit; this holds for the
\* tracker's can_make_call and for the collector's can_make_api_call (whose
\* answer decides whether a poll ends as limit_reached).
C2_CanCallIffUnderLimit ==
    [][ /\ \A p \in Procs :
              (ev'.op = "can_make_call" /\ ev'.proc = p)
                  => ((ev'.res = "true") <=> (EffectiveCalls(trk[p]) < DailyLimit))
        /\ (ev'.op = "collect_data" /\ col.up)
                  => ((ev'.res # "limit_reached") <=> (EffectiveCalls(col) < DailyLimit))
      ]_vars

\* can_make_call has just answered false with the counter at daily_limit
C2_Witness ==
    /\ ev.op = "can_make_call" /\ ev.res = "false"
    /\ trk[ev.proc].calls_today = DailyLimit
    /\ trk[ev.proc].last_reset = Today

\* C3: a poll made while today's counter equals daily_limit makes no SDK
\* call, leaves calls_today, last_call_time, the state file and the cache
\* alone and ends as limit_reached; a status taken at that count reports
\* zero remaining calls.
C3_QuotaGuardedPoll ==
    [][ /\ (ev'.op = "collect_data" /\ col.up
               /\ col.calls_today = DailyLimit /\ col.last_reset = Today)
            => /\ ev'.res = "limit_reached"
               /\ ev'.sdk = 0
               /\ col' = col
               /\ file' = file
               /\ cache_mtime' = cache_mtime
        /\ \A p \in Procs :
              (ev'.op = "get_status" /\ ev'.proc = p
                  /\ trk[p].calls_today = DailyLimit /\ trk[p].last_reset = Today)
              => ev'.val = 0
      ]_vars

\* a poll has just been refused at the limit without any SDK call
C3_Witness ==
    /\ ev.op = "collect_data" /\ ev.res = "limit_reached" /\ ev.sdk = 0
    /\ col.calls_today = DailyLimit /\ col.last_reset = Today

\* C4: every successful upstream refresh, from a scheduler poll or from the
\* dashboard's manual refresh, raises the persisted daily counter by one.
C4_EverySuccessCounted ==
    [][ ((ev'.op = "refresh" /\ ev'.res = "200")
            \/ (ev'.op = "collect_data" /\ ev'.res = "api"))
        => PersistedToday' = PersistedToday + 1
      ]_vars

\* C5: a poll that is answered from a still-valid cache entry makes no SDK
\* call and leaves calls_today and last_call_time unchanged.
C5_CacheHitLeavesCounter ==
    [][ (ev'.op = "collect_data" /\ ev'.res = "cache")
        => /\ ev'.sdk = 0
           /\ col'.calls_today = EffectiveCalls(col)
           /\ col'.last_call_time = (IF col.last_reset < Today THEN None
                                     ELSE col.last_call_time)
      ]_vars

\* C6: when two processes record calls in any interleaving, the count the
\* state file holds for today equals the number of record_call invocations
\* made today.
C6_NoLostIncrement ==
    (file.kind = "object" /\ file.last_reset = Today)
        => file.calls_today = recorded

\* C7: a process that observes the midnight rollover after another process
\* has already moved the state file to the new day does not lower the count
\* the file holds for the new day.
C7_ResetOnce ==
    [][ \A p \in Procs :
          (/\ trk[p].up /\ trk[p].last_reset < Today /\ trk'[p].last_reset = Today
           /\ file.kind = "object" /\ file.last_reset = Today)
          => PersistedToday' >= PersistedToday
      ]_vars

RECURSIVE Pow(_, _)
Pow(b, k) == IF k = 0 THEN 1 ELSE b * Pow(b, k - 1)

\* min(1.5^k, 4.0) in eighths
ClampedPower(k) ==
    IF BackoffOne * Pow(3, k) >= BackoffCap * Pow(2, k)
    THEN BackoffCap
    ELSE (BackoffOne * Pow(3, k)) \div Pow(2, k)

\* the multiplier an instance schedules with
BackoffOf(i) == IF i = "collector" THEN ColBackoff(col) ELSE trk[i].backoff

\* C8: a multiplier that was 1.0 and has since been raised k times in a row
\* equals min(1.5^k, 4.0), and no multiplier is ever below 1.0 or above 4.0.
C8_BackoffClimb ==
    \A i \in Instances :
        /\ BackoffOf(i) = ClampedPower(hits[i])
        /\ BackoffOf(i) >= BackoffOne
        /\ BackoffOf(i) <= BackoffCap

\* the fourth raise in a row was clamped to 4.0
C8_Witness ==
    /\ hits["p1"] = 4 /\ trk["p1"].backoff = BackoffCap
    /\ hits["collector"] = 2 /\ ColBackoff(col) = 18

FileIsCorrupt ==
    \/ file.kind \in {"invalid_json", "wrong_shape"}
    \/ file.kind = "object" /\ (file.last_reset = Bad \/ file.last_call = Bad)

\* C9: constructing the governor on a corrupt state file (invalid JSON, a
\* JSON value of the wrong shape, an unparsable date or timestamp) finishes
\* without raising and leaves an empty state for today.
C9_CorruptLoadsEmpty ==
    [][ FileIsCorrupt =>
          /\ \A p \in Procs :
                (ev'.op = "tracker_init" /\ ev'.proc = p)
                => /\ trk'[p].up
                   /\ trk'[p].calls_today = 0
                   /\ trk'[p].last_reset = Today
                   /\ trk'[p].last_call_time = None
                   /\ trk'[p].backoff = BackoffOne
          /\ ev'.op = "collector_init"
                => /\ col'.up
                   /\ col'.calls_today = 0
                   /\ col'.last_reset = Today
                   /\ col'.last_call_time = None
                   /\ ColBackoff(col') = BackoffOne
      ]_vars

\* C10: a collector restarted on the day its state was persisted comes up
\* with the calls_today, last_call_time and back-off multiplier the previous
\* collector process held.
C10_StateSurvivesRestart ==
    [][ (ev'.op = "collector_init" /\ col.up
            /\ file.kind = "object" /\ file.last_reset = Today)
        => /\ col'.calls_today = col.calls_today
           /\ col'.last_call_time = col.last_call_time
           /\ ColBackoff(col') = ColBackoff(col)
      ]_vars


----------------------------------------------------------------------------
(* Cache validity *)

\* the age of the cache entry and the validity 0.95 x 1440/daily_limit
\* minutes, both multiplied by 100 * DailyLimit * TicksPerDay * SubTicks / 1440
\* so that they are whole numbers
ScaledAge == CacheAge(cache_mtime) * DailyLimit * 100
ScaledValidity == 95 * TicksPerDay * SubTicks

\* C11: get_vehicle_data answers from the cache, making no SDK call, exactly
\* when the cache entry exists, cache reads are enabled and the entry's age
\* is strictly below the validity; at an age equal to the validity the
\* entry is stale, and a missing entry is never used.
C11_CacheShortCircuit ==
    [][ ev'.op = "get_vehicle_data" =>
          /\ (ev'.res = "cache" /\ ev'.sdk = 0 /\ ev'.val = 1)
                <=> (cache_mtime # None /\ cache_enabled
                        /\ ScaledAge < ScaledValidity)
          /\ ScaledAge = ScaledValidity => ev'.res # "cache"
          /\ cache_mtime = None => ev'.res # "cache"
      ]_vars

\* a call made at an age equal to the validity went to the vendor and failed
\* there, which left the entry as it was
C11_Witness ==
    /\ ev.op = "get_vehicle_data" /\ ev.res = "other" /\ ev.sdk = 1
    /\ cache_enabled /\ cache_mtime # None
    /\ ScaledAge = ScaledValidity

----------------------------------------------------------------------------
(* Retry of the vehicle-state refresh *)

\* the attempt that decides a refresh: the first one that does not end in a
\* rate-limit error, or the last one allowed
DecidingAttempt(outs) ==
    IF \A i \in 1..MaxRetries : outs[i] = "rate_limit"
    THEN MaxRetries
    ELSE CHOOSE i \in 1..MaxRetries :
            /\ outs[i] # "rate_limit"
            /\ \A j \in 1..(i - 1) : outs[j] = "rate_limit"

\* the last get_vehicle_data went past the cache and the token refresh
ReachedRefresh ==
    /\ ev.op = "get_vehicle_data"
    /\ ev.res \notin {"cache", "token_error"}

\* C12: a fetch calls the SDK refresh again only after a rate-limit error:
\* the number of refresh calls is the position of the first attempt that
\* does not end in a rate-limit error; an error of any other type on the
\* first attempt is surfaced after one call, a rate-limit error on every
\* attempt is surfaced after max_retries = 3 calls, and no fetch makes more
\* than 3.
C12_RetryOnlyOnRateLimit ==
    ReachedRefresh =>
        /\ ev.sdk = DecidingAttempt(run_met.outs)
        /\ ev.sdk <= 3
        /\ run_met.outs[1] \in {"error", "partial_fail"}
              => (ev.sdk = 1 /\ ev.val = 0 /\ ev.res \in {"other", "unknown"})
        /\ (\A i \in 1..MaxRetries : run_met.outs[i] = "rate_limit")
              => (ev.sdk = 3 /\ ev.val = 0 /\ ev.res = "rate_limit")

\* a fetch whose three attempts were all rate limited
C12_Witness ==
    /\ ReachedRefresh
    /\ \A i \in 1..MaxRetries : run_met.outs[i] = "rate_limit"
    /\ ev.sdk = 3 /\ ev.res = "rate_limit"

----------------------------------------------------------------------------
(* Scheduler *)

\* the claimed candidate last_call_at + (1440 / daily_limit) x multiplier
\* minutes, multiplied by 8 * daily_limit so that it is a whole number
ScaledCandidate(c) ==
    c.last_call_time * BackoffOne * c.limit + DayUnits * ColBackoff(c)

\* the claimed grid slots midnight + i x 1440 / daily_limit of the day of t
\* that lie strictly after t, multiplied by daily_limit
ScaledFutureSlots(c, t) ==
    LET midnight == (t \div DayUnits) * DayUnits
    IN {x \in {midnight * c.limit + i * DayUnits : i \in 0..(c.limit - 1)} :
          x > t * c.limit}

\* C13: the next_poll_at computed after a poll is strictly later than now
\* and is last_call_at + base_interval x multiplier when a last call exists
\* and that instant is in the future, otherwise the smallest grid slot
\* midnight + i x base_interval strictly in the future, otherwise tomorrow's
\* midnight, with base_interval = 1440 / daily_limit minutes.
C13_NextPollAt ==
    sched.pc = "sleep" =>
        /\ sched.next > sched.now
        /\ IF sched.last_call_time # None
                /\ ScaledCandidate(sched) > sched.now * BackoffOne * sched.limit
           THEN sched.next * BackoffOne * sched.limit = ScaledCandidate(sched)
           ELSE IF ScaledFutureSlots(sched, sched.now) # {}
           THEN sched.next * sched.limit = SetMin(ScaledFutureSlots(sched, sched.now))
           ELSE sched.next = (sched.now \div DayUnits) * DayUnits + DayUnits

\* a step of the loop that is a poll
IsPoll == sched.pc = "poll" /\ sched' # sched /\ ~sched'.signal

\* the loop goes on after a poll, sleeps, and polls again; it ends only by
\* the signal, and then nothing more happens
LoopGoesOn ==
    /\ IsPoll => sched'.pc \in {"sleep", "error_sleep"}
    /\ (sched.pc = "sleep" /\ sched' # sched /\ ~sched'.signal)
          => /\ sched'.pc = "poll"
             /\ sched'.now = sched.now + Max(MinSleep, sched.next - sched.now)
    /\ (sched.pc = "error_sleep" /\ sched' # sched /\ ~sched'.signal)
          => sched'.pc = "poll"
    /\ sched'.pc = "stopped" => sched'.signal
    /\ sched.signal => sched' = sched

TripKey(row) == <<row.date, row.distance, row.odometer_start>>

\* C15: trip ingestion is idempotent on (trip_date, distance,
\* odometer_start): a trip whose key is already in the table, or was seen
\* earlier in the same snapshot, adds no row, so however often a trip is
\* stored the table holds one row with its key.  Stated for the trips
\* that have a distance.
C15_TripIdempotent ==
    \A i, j \in 1..Len(trips_csv) :
        /\ trips_csv[i].distance # PyNone
        /\ TripKey(trips_csv[i]) = TripKey(trips_csv[j])
        => i = j

\* C16: in dual-write mode a store writes the CSV backend first and the
\* Oracle backend after it; a failure of the Oracle write never reaches the
\* caller and never undoes or prevents the CSV write (the store raises
\* exactly when the CSV write itself failed); a read is served by the
\* configured read side and by no other.
C16_DualWrite ==
    [][/\ sev'.op = "store" =>
             /\ sev'.ora_done => sev'.csv_done
             /\ sev'.raised <=> ~sev'.csv_done
             /\ sev'.csv_done =>
                    sessions_csv' =
                        TrackChargingSession(sessions_csv, store_cfg.capacity,
                            LastTwo(Append(battery_csv, BatteryRow(sev'.data))),
                            sev'.data.battery, wall')
             /\ ~sev'.csv_done => sessions_csv' = sessions_csv
       /\ sev'.op = "read" =>
             /\ sev'.served = store_cfg.read_from
             /\ sev'.result = IF store_cfg.read_from = "csv"
                              THEN sessions_csv' ELSE oracle_sessions'
      ]_vars

\* a dual store whose Oracle write failed: nothing was raised and the CSV
\* table holds a session that the Oracle table does not
C16_Witness ==
    /\ store_cfg.backend = "dual"
    /\ sev.op = "store"
    /\ sev.csv_done /\ ~sev.ora_done /\ ~sev.raised
    /\ Len(sessions_csv) > Len(oracle_sessions)

StoredPair == sev'.op = "store" /\ sev'.csv_done /\ Len(battery_csv') = 2
Earlier == battery_csv'[1]
Later == battery_csv'[2]

\* neither charging nor plugged in, with a level
Unflagged(reading) ==
    ~reading.is_charging /\ ~reading.is_plugged_in /\ reading.level # None

\* C18: with no active session, two consecutive readings that are neither
\* charging nor plugged in and whose level rises by at least 2 points
\* produce exactly one new session: complete, from the earlier reading's
\* time and level to the later reading's time and level (60 -> 68 gives
\* 6.19 kWh at 77.4 kWh capacity); a smaller rise produces no session.
C18_InferredSession ==
    [][(/\ StoredPair
        /\ Unflagged(Earlier) /\ Unflagged(Later)
        /\ Incomplete(sessions_csv) = {})
       => IF Later.level >= Earlier.level + 2
          THEN /\ Len(sessions_csv') = Len(sessions_csv) + 1
               /\ LET s == sessions_csv'[Len(sessions_csv')]
                  IN /\ s.is_complete
                     /\ s.start_time = Earlier.timestamp
                     /\ s.end_time = Later.timestamp
                     /\ s.start_battery = Earlier.level
                     /\ s.end_battery = Later.level
                     /\ (Earlier.level = 60 /\ Later.level = 68
                            /\ store_cfg.capacity = LiteralCapacity)
                        => s.energy_added = 619
          ELSE sessions_csv' = sessions_csv
      ]_vars

\* the active session of the table before the step: its index, and the
\* time it was last written (its end_time, or its start if it has none)
ActiveIdx == SetMax(Incomplete(sessions_csv))
ActiveLastUpdated ==
    IF sessions_csv[ActiveIdx].end_time # None
    THEN sessions_csv[ActiveIdx].end_time
    ELSE sessions_csv[ActiveIdx].start_time

\* C19: a charging reading at time u meets an active session last updated
\* at t.  If u - t exceeds the gap threshold (72 minutes by default) the
\* active session is closed with end_time and end_battery as they were at t
\* and a new active session starting at u is opened; otherwise the same
\* session is updated and no session is created.
C19_GapSplit ==
    [][(/\ sev'.op = "store" /\ sev'.csv_done
        /\ sev'.data.battery.is_charging
        /\ sev'.data.battery.level # None
        /\ Incomplete(sessions_csv) # {})
       => LET a == ActiveIdx
              u == sev'.data.timestamp
          IN IF u - ActiveLastUpdated > 72
             THEN /\ Len(sessions_csv') = Len(sessions_csv) + 1
                  /\ sessions_csv'[a].is_complete
                  /\ sessions_csv'[a].end_time = ActiveLastUpdated
                  /\ sessions_csv'[a].end_battery = sessions_csv[a].end_battery
                  /\ ~sessions_csv'[Len(sessions_csv')].is_complete
                  /\ sessions_csv'[Len(sessions_csv')].start_time = u
             ELSE /\ Len(sessions_csv') = Len(sessions_csv)
                  /\ ~sessions_csv'[a].is_complete
                  /\ sessions_csv'[a].end_time = u
                  /\ sessions_csv'[a].end_battery = sev'.data.battery.level
      ]_vars

\* C20: every closed session of charging_sessions.csv has energy_added =
\* round(max(0, end_battery - start_battery) / 100 * capacity, 2) with the
\* configured capacity, whatever updates came before the close.
C20_ClosedEnergy ==
    \A i \in 1..Len(sessions_csv) :
        sessions_csv[i].is_complete =>
            sessions_csv[i].energy_added =
                IF sessions_csv[i].end_battery - sessions_csv[i].start_battery > 0
                THEN EnergyAdded(sessions_csv[i].end_battery - sessions_csv[i].start_battery,
                                 store_cfg.capacity)
                ELSE 0

\* the snapshot carries a vendor timestamp that parses
HasVendorTimestamp(data) == ExtractRemoteTimestamp(data) # None

\* C21 as stated: for every snapshot x, is_fresh(x, x) is false, and for
\* every snapshot x, is_fresh(x, none) is true
C21_Idempotence_AsStated ==
    fr.pc = "returned" /\ IsDict(fr.new_data) =>
        /\ fr.previous_data = fr.new_data => ~fr.fresh
        /\ fr.previous_data = NoSnapshot => fr.fresh

\* C21, amended: for every snapshot x that carries a vendor timestamp,
\* is_fresh(x, x) is false, and for every snapshot x, is_fresh(x, none) is
\* true
C21_Idempotence ==
    fr.pc = "returned" /\ IsDict(fr.new_data) =>
        /\ fr.previous_data = fr.new_data /\ HasVendorTimestamp(fr.new_data)
               => ~fr.fresh
        /\ fr.previous_data = NoSnapshot => fr.fresh

\* a snapshot with a vendor timestamp has been compared with itself
C21_Witness ==
    /\ fr.pc = "returned"
    /\ fr.new_data.kind = "dict"
    /\ fr.previous_data = fr.new_data
    /\ HasVendorTimestamp(fr.new_data)
    /\ ~fr.fresh

\* the raw-payload digests of the pair differ
DigestsDiffer ==
    RawDataSignature(fr.new_data) # RawDataSignature(fr.previous_data)

\* the decision table of the freshness classifier, with the verdict of the
\* row in which only the previous snapshot has a vendor timestamp
DecisionTable(only_previous) ==
    LET new_ts == ExtractRemoteTimestamp(fr.new_data)
        prev_ts == ExtractRemoteTimestamp(fr.previous_data)
    IN CASE new_ts # None /\ prev_ts # None /\ new_ts # prev_ts -> TRUE
         [] new_ts # None /\ prev_ts # None /\ new_ts = prev_ts -> DigestsDiffer
         [] new_ts # None /\ prev_ts = None -> TRUE
         [] new_ts = None /\ prev_ts # None -> only_previous
         [] OTHER -> TRUE

SnapshotOf(data) ==
    [kind |-> "dict", api_last_updated |-> data.api_last_updated,
     raw_data |-> data.raw_data]

\* the snapshot of the poll before this one, if there was one
PreviousSnapshot == IF sev.op = "none" THEN NoSnapshot ELSE SnapshotOf(sev.data)

\* C23: every battery reading appended by a poll carries is_cached equal to
\* the negation of the freshness classifier's result for that poll's
\* snapshot against the previous snapshot; a replayed payload (same vendor
\* timestamp, same raw digest) is stored with is_cached = true.
C23_IsCachedAtAppend ==
    [][sev'.op = "store" /\ sev'.csv_done /\ sev'.data.battery # NoBattery =>
          battery_csv'[Len(battery_csv')].is_cached =
              ~IsRemoteDataFresh(SnapshotOf(sev'.data), PreviousSnapshot)
      ]_vars

\* C24: a manual refresh returns HTTP 200 with the snapshot on success, and
\* otherwise a classified error: 429 for a quota or rate-limit failure, 504
\* for a timeout, 5xx for any other failure.
C24_RefreshStatus ==
    [][\A run \in ClientRuns :
          WebRefresh(run) =>
              LET r == ForceCacheUpdate(run)
              IN /\ r.data => ev'.res = "200"
                 /\ ~r.data /\ r.src = "rate_limit" => ev'.res = "429"
                 /\ ~r.data /\ r.src # "rate_limit" =>
                        ev'.res \in {"500", "502", "503", "504"}
      ]_vars

\* the precedence of the error classes
Precedence ==
    <<"rate_limit", "auth", "vehicle_not_found", "network",
      "service_unavailable", "vehicle_offline">>

\* the classes of which the message contains a keyword
ClassesOccurring ==
    {i \in 1..Len(Precedence) : cls.message \cap Keywords(Precedence[i]) # {}}

\* C25: error classification is total and deterministic with a fixed
\* precedence: the result is the first class, in the order rate_limit, auth,
\* vehicle_not_found, network, service_unavailable, vehicle_offline, of
\* which the lower-cased message contains a keyword, and it is unknown
\* exactly when no keyword of any class occurs.
C25_ClassificationPrecedence ==
    cls.pc = "returned" =>
        IF ClassesOccurring = {}
        THEN cls.error_type = "unknown"
        ELSE \E i \in ClassesOccurring :
                 /\ \A j \in ClassesOccurring : i <= j
                 /\ cls.error_type = Precedence[i]

\* a message with a rate-limit keyword and an authentication keyword has
\* been classified as rate_limit
C25_Witness ==
    /\ cls.pc = "returned"
    /\ cls.message \cap Keywords("rate_limit") # {}
    /\ cls.message \cap Keywords("auth") # {}
    /\ cls.error_type = "rate_limit"

\* C26: after any poll that completed a successful upstream call, the
\* back-off multiplier is 1.0 when the next poll is scheduled, so one
\* success after a run of rate-limit hits restores the base interval.
C26_SuccessRestoresBase ==
    [][sched.pc = "poll" /\ sched'.pc = "sleep" /\ sched'.polled = "counted" =>
          /\ ColBackoff(sched') = BackoffOne
          /\ sched'.next <= sched'.last_call_time
                               + BackoffOne * CollectionInterval(sched'.limit)
      ]_vars

\* C27: whenever a poll fails because the vendor returned a rate-limit
\* error, the back-off multiplier is raised (x 1.5, capped at 4.0) before
\* the next poll is scheduled.
C27_RateLimitRaisesBackoff ==
    [][ev'.op = "collect_data" /\ ev'.res = "rate_limit" =>
          ColBackoff(col') = RaiseBackoff(ColBackoff(ColAfterCheck(col)))
      ]_vars

\* C28: a process that reads the governor state file while another process
\* is persisting it never observes an empty or partially written file:
\* every read returns the complete state from before the write or the
\* complete state from after it.
C28_ReadsAreComplete == io.seen \in {"none", "complete"}

\* the reading of the store step, and the level of the reading before it
StoredReading == sev'.data.battery
LevelBefore == GetLastBatteryLevel(LastTwo(Append(battery_csv, BatteryRow(sev'.data))))

\* a reading that has a level, is not charging and is not taken as charging
\* by the plugged-in rule has been stored by the CSV backend
NotChargingStored ==
    /\ sev'.op = "store" /\ sev'.csv_done
    /\ StoredReading # NoBattery
    /\ StoredReading.level # None
    /\ ~StoredReading.is_charging
    /\ ~EffectivelyCharging(StoredReading, LevelBefore)

\* C29: whenever a reading is processed whose is_charging is false and
\* which the plugged-in rule does not treat as charging, any session that
\* was active before the reading is closed (is_complete = true, end_battery
\* = the reading's level), so no session is active afterwards, including
\* when the level rose by 2 points or more since the previous reading.
C29_NotChargingCloses ==
    [][NotChargingStored =>
          /\ \A i \in Incomplete(sessions_csv) :
                 /\ sessions_csv'[i].is_complete
                 /\ sessions_csv'[i].end_battery = StoredReading.level
          /\ Incomplete(sessions_csv') = {}
      ]_vars

\* C30: every charging session with is_complete = true has end_battery >=
\* start_battery, for any sequence of readings (including a not-charging
\* reading whose level is below the session's start level).
C30_CompleteNeverLoses ==
    \A i \in 1..Len(sessions_csv) :
        sessions_csv[i].is_complete =>
            sessions_csv[i].end_battery >= sessions_csv[i].start_battery

----------------------------------------------------------------------------
(* C31: session mutations of the collector's store, of a manual refresh's *)
(* store and of a dashboard read of the sessions table are atomic with    *)
(* respect to each other: no write of one of them discards what another   *)
(* wrote since it read the table, and the table never holds two active    *)
(* sessions.                                                              *)
NoUpdateLost == ~mut.lost
NoTwoActive == Cardinality(Incomplete(sessions_csv)) <= 1

C31_SessionMutationsAtomic == NoUpdateLost /\ NoTwoActive

----------------------------------------------------------------------------
(* C32: the Oracle engine and the CSV engine, fed the same readings from  *)
(* empty tables by the dual backend, hold the same sessions after every   *)
(* reading: the same start and end times, start and end battery,          *)
(* energy_added and is_complete.                                          *)
SessionFacts(rows) ==
    {[start_time |-> rows[i].start_time, end_time |-> rows[i].end_time,
      start_battery |-> rows[i].start_battery, end_battery |-> rows[i].end_battery,
      energy_added |-> rows[i].energy_added, is_complete |-> rows[i].is_complete] :
         i \in 1..Len(rows)}

C32_EnginesAgree ==
    store_cfg.backend = "dual" => SessionFacts(sessions_csv) = SessionFacts(oracle_sessions)

----------------------------------------------------------------------------
(* C33: when the refresh fails because vehicleStatus is missing from the  *)
(* vendor payload, exactly one call of the SDK's cached-state update is   *)
(* made; if that call fails too, the fetch returns the last good cache    *)
(* and writes no error_*.json record.                                     *)
PartialPayload == cdir'.last.ending \in {"partial_ok", "partial_fail"}

C33_PartialPayloadFallback ==
    [][(cdir'.last.op = "get_vehicle_data" /\ PartialPayload) =>
           /\ cdir'.last.fb = 1
           /\ cdir'.last.ending = "partial_fail" =>
                  /\ cdir'.last.returned \in FallbackResults(cdir.files, cdir.clock)
                  /\ cdir'.files = cdir.files]_vars

(* C34: a cache store overwrites the current file, writes the history     *)
(* file of the current second, and then deletes exactly the history files *)
(* older than retention: afterwards no history file older than retention  *)
(* remains, and the current file, the error records, the files of other   *)
(* writers and the history files within retention are all still there.    *)
StoreStep == cdir'.last.stored # NoContent /\ cdir' # cdir

Held(files, name) == {f.content : f \in {g \in files : g.name = name}}

OldHistory(files, clock) ==
    {f \in files : f.name.kind = "history" /\ clock - f.mtime > CacheRetentionHours}

C36_FallbackIsVehicleSnapshot ==
    (cdir.last.src = "fallback" /\ cdir.last.returned # NoContent) =>
        /\ cdir.last.returned.type = "vehicle"
        /\ cdir.clock - cdir.last.returned.at <= CacheRetentionHours


(* C35: on one local day the SDK's vehicle-state refresh is invoked at     *)
(* most daily_limit times, counting the retries of one call, the polls     *)
(* that end in failure and the manual refreshes.                           *)
C35_UpstreamWithinLimit == pipe.sent <= DailyLimit

(* C39: every snapshot obtained from the vendor is appended to the battery *)
(* history at most once; a poll that is answered from the cache appends no *)
(* further row.                                                            *)
C39_SnapshotAppendedOnce ==
    \A i, j \in 1..Len(pipe.rows) : pipe.rows[i] = pipe.rows[j] => i = j

----------------------------------------------------------------------------
\* the time of the last reading a session row absorbed: its end_time, or
\* its start if no update has been written yet
LastAbsorbed(row) == IF row.end_time # None THEN row.end_time ELSE row.start_time

\* the rows that were active before the step and that the step extended to
\* the reading stored at u
Absorbing(before, after, u) ==
    {i \in Incomplete(before) : after[i].end_time = u /\ ~after[i].is_complete}

(* C37: no session absorbs two consecutive charging readings that are more *)
(* than the gap threshold apart, in either engine; for a session that was  *)
(* just opened and has no end_time yet the gap is measured from its start. *)
C37_NoAbsorbAcrossGap ==
    [][(/\ sev'.op = "store"
        /\ sev'.data.battery.is_charging
        /\ sev'.data.battery.level # None)
       => LET u == sev'.data.timestamp
          IN /\ sev'.csv_done =>
                   \A i \in Absorbing(sessions_csv, sessions_csv', u) :
                       ~ExceedsGap(u - LastAbsorbed(sessions_csv[i]))
             /\ sev'.ora_done =>
                   \A i \in Absorbing(oracle_sessions, oracle_sessions', u) :
                       ~ExceedsGap(u - LastAbsorbed(oracle_sessions[i]))
      ]_vars

(* C38: every row of the sessions table has a session_id of its own, also  *)
(* when two sessions are created within the same wall-clock second, so     *)
(* that an update or close by session_id changes the intended row only.    *)
C38_DistinctSessionIds ==
    \A i, j \in 1..Len(sessions_csv) :
        sessions_csv[i].session_id = sessions_csv[j].session_id => i = j


----------------------------------------------------------------------------
\* the level is missing or outside 0..100
RejectedLevel(level) == level = None \/ level < 0 \/ level > 100

====
